---- MODULE Spec2Model ----
(***************************************************************************)
(* Gateway coordinator of marlinprotocol/serverless-gateway                *)
(* (src/src/common_chain_interaction.rs): the stake-weighted elector, the  *)
(* placement of jobs, the slash timer and the common-chain egress channel. *)
(*                                                                         *)
(* Addresses are small integers, 0 is Address::zero() and NoneAddr stands  *)
(* for Option::None.  Stake amounts are small integers counted in a unit   *)
(* in which the eligibility threshold MIN_GATEWAY_STAKE is 1.  On these    *)
(* amounts U256::as_u64 and the 64-bit running sum are taken to be exact;  *)
(* the width of the stake arithmetic is modelled apart, in the section on  *)
(* the width of the stakes.                                                *)
(***************************************************************************)
EXTENDS Integers, Sequences, FiniteSets, TLC

VARIABLES
    ts,                            \* SystemTime::now() in seconds
    gateway_epoch_state,           \* cycle -> (address -> GatewayData)
    gateway_epoch_state_waitlist,  \* cycle -> sequence of Job
    active_jobs,                   \* job_id -> Job
    com_chain_tx,                  \* the Job channel read by txns_to_common_chain
    placing,                       \* spawned job_placed_handler tasks not run yet
    timers,                        \* spawned job_relayed_slash_timer tasks, asleep
    com_chain_logs,                \* JobRelayed logs of the gateway-jobs contract
    nlogs,                         \* request-chain logs taken from the stream so far
    ev,                            \* the step taken last and its outcome
    last_elect,                    \* the last direct call of the elector
    handlers,                      \* spawned cancel and common-chain handler tasks
    req_chain_tx,                  \* the ResponseJob channel read by txns_to_request_chain
    ncom,                          \* common-chain logs taken from the stream so far
    stream,                        \* the request-chain logs in the order of their ingestion
    epoch_task,                    \* the gateway epoch state service: its position and epoch
    reg_listeners,                 \* chain -> whether its GatewayRegistered listener still listens
    reg_rx,                        \* the RegisteredData channel of wait_for_registration
    common_chain_registered,       \* local of wait_for_registration
    req_chain_ids_not_registered,  \* local of wait_for_registration
    registered,                    \* app_state.registered
    run_started,                   \* how many times ContractsClient::run was spawned
    reg_seen,                      \* the chains a GatewayRegistered log not removed came from
    nreglogs,                      \* GatewayRegistered logs delivered so far
    subscription_jobs,             \* subscription_id -> SubscriptionJob
    subscription_job_heap,         \* the entries of the BinaryHeap of next trigger times
    sub_triggers,                  \* spawned trigger_subscription_job tasks not run yet
    triggered,                     \* the instance jobs handed to the coordinator, in order
    sub_admitted,                  \* the subscriptions add_subscription_job was called with
    sub_manager,                   \* whether job_subscription_manager still loops
    sub_updates,                   \* the calls of the update functions, in order, and how far each came
    confirm,                       \* one call of confirm_event: its arguments, locals and position
    finder,                        \* one call of get_block_number_by_timestamp, likewise
    channels                       \* the channels: whether a sender is left, whether the receiving loop runs

\* the state of the handlers of cancellations and common-chain events
lifecycle_vars == <<handlers, req_chain_tx, ncom>>

\* the state of the services started next to the coordinator
reg_vars == <<reg_listeners, reg_rx, common_chain_registered, req_chain_ids_not_registered,
              registered, run_started, reg_seen, nreglogs>>

sub_vars == <<subscription_jobs, subscription_job_heap, sub_triggers, triggered,
              sub_admitted, sub_manager, sub_updates>>

\* the state of the calls into chain_util.rs and of the ends of the channels
util_vars == <<confirm, finder, channels>>

service_vars == <<epoch_task, reg_vars, sub_vars, util_vars>>

\* what the placement, the slash timer and the elector leave alone
other_vars == <<lifecycle_vars, service_vars>>

vars == <<ts, gateway_epoch_state, gateway_epoch_state_waitlist, active_jobs,
          com_chain_tx, placing, timers, com_chain_logs, nlogs, ev, last_elect,
          other_vars, stream>>

\* ---------------------------------------------------------------- constants
REQUEST_RELAY_TIMEOUT == 900
MAX_GATEWAY_RETRIES == 2
GATEWAY_BLOCK_STATES_TO_MAINTAIN == 5
OFFEST_FOR_GATEWAY_EPOCH_STATE_CYCLE == 4
MIN_GATEWAY_STAKE == 1

\* the configuration the tests run the client with
EPOCH == 1713433800
TIME_INTERVAL == 300
enclave_address == 2
request_chain_ids == {1, 2}

\* ------------------------------------------------------------------- bounds
NumGateways == 3      \* gateway addresses are 1..NumGateways
MaxStake == 3         \* stake amounts are 0..MaxStake
MaxSkips == 2         \* skips handed to a direct elector call
MaxCycle == 6         \* the clock stops once this cycle is reached
TickSecs == 900       \* the seconds between two looks at the clock
MaxLogs == 2          \* request-chain logs ingested
MaxComLogs == 1       \* JobRelayed logs on the common chain
MaxWait == 1          \* jobs waiting per cycle under direct elector calls
MaxCancels == 1       \* JobCancelled logs ingested
MaxComEvents == 1     \* logs taken from the common-chain stream
MaxRegLogs == 4       \* GatewayRegistered logs delivered to the listeners
MaxSubLogs == 2       \* JobSubscriptionStarted logs handed to add_subscription_job
MaxSubUpdates == 1    \* JobSubscriptionTerminationParamsUpdated logs delivered
MaxHead == 3          \* block numbers and chain heads are 0..MaxHead
MaxConfirmations == 2 \* confirmation_blocks is 0..MaxConfirmations
MaxReceiptRetries == 2 \* MAX_TX_RECEIPT_RETRIES is 1..MaxReceiptRetries
MaxChain == 4         \* the chain a block is looked up in has up to MaxChain blocks
MaxTimestamp == 6     \* block timestamps are 1..MaxTimestamp
MaxProviderRetries == 1 \* MAX_RETRY_ON_PROVIDER_ERROR is 0..MaxProviderRetries
EqualStake == 4       \* the stake of every gateway of a snapshot of equal stakes

NoneAddr == -1
ZeroAddress == 0
GatewayAddrs == 1..NumGateways
JobIds == {1, 2}

CycleStart(c) == EPOCH + OFFEST_FOR_GATEWAY_EPOCH_STATE_CYCLE + c * TIME_INTERVAL
StartTimes == {CycleStart(0) + 5}
\* the seeds of direct elector calls: two start times of cycle 0
ElectSeeds == {CycleStart(0) + 5, CycleStart(0) + 7}

\* job_owner is log.address, the relay contract of the request chain
RelayContractAddr(chain) == 10 + chain

\* ------------------------------------------------------------------ helpers
RECURSIVE OrderedKeys(_)
OrderedKeys(S) ==
    IF S = {} THEN <<>>
    ELSE LET mn == CHOOSE x \in S : \A y \in S : x <= y
         IN  <<mn>> \o OrderedKeys(S \ {mn})

\* BTreeMap::values(): the values in ascending key order
BTreeValues(m) ==
    LET ks == OrderedKeys(DOMAIN m)
    IN  [i \in 1..Len(ks) |-> m[ks[i]]]

RemoveAt(s, i) == SubSeq(s, 1, i - 1) \o SubSeq(s, i + 1, Len(s))

MapPut(m, k, v) == [x \in DOMAIN m \cup {k} |-> IF x = k THEN v ELSE m[x]]

\* ---------------------------------------------------------------------- Job
NewJob(job_id, chain, starttime, seq) ==
    [job_id |-> job_id,
     starttime |-> starttime,
     request_chain_id |-> chain,
     tx_hash |-> 7,
     code_input |-> 8,
     user_timeout |-> 2000,
     job_owner |-> RelayContractAddr(chain),
     job_type |-> "JobRelay",
     sequence_number |-> seq,
     gateway_address |-> NoneAddr]

NoJob == NewJob(0, 0, 0, 0)

\* ------------------------------------------------------------------ elector
JobCycle(starttime) ==
    (starttime - EPOCH - OFFEST_FOR_GATEWAY_EPOCH_STATE_CYCLE) \div TIME_INTERVAL

CurrentCycle(now) ==
    (now - EPOCH - OFFEST_FOR_GATEWAY_EPOCH_STATE_CYCLE) \div TIME_INTERVAL

\* the stake test of line 589 with >= for >
IsEligibleAtThreshold(g, chain) ==
    /\ chain \in g.req_chain_ids
    /\ g.stake_amount >= MIN_GATEWAY_STAKE
    /\ g.draining = FALSE

\* the filter of lines 586-590
IsEligible(g, chain) ==
    /\ chain \in g.req_chain_ids
    /\ g.stake_amount > MIN_GATEWAY_STAKE
    /\ g.draining = FALSE

\* the loop over all_gateways_data: the eligible gateways, their running
\* sums and the total
RECURSIVE StakeLoop(_, _, _, _)
StakeLoop(all, chain, i, acc) ==
    IF i > Len(all) THEN acc
    ELSE IF IsEligible(all[i], chain)
         THEN LET total == acc.total_stake + all[i].stake_amount
              IN  StakeLoop(all, chain, i + 1,
                            [gateways |-> Append(acc.gateways, all[i]),
                             stake_distribution |-> Append(acc.stake_distribution, total),
                             total_stake |-> total])
         ELSE StakeLoop(all, chain, i + 1, acc)

StakeDistribution(all, chain) ==
    StakeLoop(all, chain, 1,
              [gateways |-> <<>>, stake_distribution |-> <<>>, total_stake |-> 0])

\* StdRng: a deterministic generator; the stream depends on the seed alone
\* and every draw advances it by one step
RngModulus == 16
seed_from_u64(seed) == seed % RngModulus
RngStep(state) == (state * 5 + 3) % RngModulus
RngSample(state, total) == 1 + (state % total)

\* the skips - 1 discarded draws and the selection draw; gen_range(1..=0)
\* panics on the empty range
RECURSIVE DrawAfter(_, _, _)
DrawAfter(state, n, total) ==
    IF n = 0 THEN RngSample(RngStep(state), total)
    ELSE DrawAfter(RngStep(state), n - 1, total)

\* the selection draw taken as the first draw whatever skips is
RandomNumberUnskipped(seed, skips, total) == DrawAfter(seed_from_u64(seed), 0, total)

\* lines 601-605
RandomNumber(seed, skips, total) == DrawAfter(seed_from_u64(seed), skips - 1, total)

\* slice::binary_search_by: Ok(index) and Err(index) are both taken as index
RECURSIVE BinarySearch(_, _, _, _)
BinarySearch(dist, x, left, right) ==
    IF left >= right THEN left
    ELSE LET mid == left + (right - left) \div 2
         IN  IF dist[mid + 1] = x THEN mid
             ELSE IF dist[mid + 1] < x THEN BinarySearch(dist, x, mid + 1, right)
             ELSE BinarySearch(dist, x, left, mid)

Ok(addr) == [kind |-> "Ok", addr |-> addr, msg |-> ""]
Err(msg) == [kind |-> "Err", addr |-> NoneAddr, msg |-> msg]
Panic(msg) == [kind |-> "Panic", addr |-> NoneAddr, msg |-> msg]
NoRes == [kind |-> "", addr |-> NoneAddr, msg |-> ""]

\* the election over an existing snapshot (lines 576-621)
SelectFromSnapshot(snapshot, seed, skips, chain) ==
    LET all == BTreeValues(snapshot)
        sd == StakeDistribution(all, chain)
    IN  IF Len(all) = 0 THEN Err("No Gateways Registered")
        ELSE IF sd.total_stake = 0 THEN Panic("cannot sample empty range")
        ELSE LET random_number == RandomNumber(seed, skips, sd.total_stake)
                 index == BinarySearch(sd.stake_distribution, random_number,
                                       0, Len(sd.stake_distribution))
             IN  Ok(sd.gateways[index + 1].address)

\* the age test of line 555, with its operands swapped
IsTooOldSwapped(current_cycle, job_cycle) ==
    job_cycle >= GATEWAY_BLOCK_STATES_TO_MAINTAIN + current_cycle

\* the age test of line 555
IsTooOld(current_cycle, job_cycle) ==
    current_cycle >= GATEWAY_BLOCK_STATES_TO_MAINTAIN + job_cycle

\* the waitlist entry replaced by the new job instead of extended by it
WaitlistPushReplacing(waitlist, job_cycle, job) ==
    MapPut(waitlist, job_cycle, <<job>>)

\* entry(job_cycle).and_modify(push).or_insert(vec![job]) (lines 567-571)
WaitlistPush(waitlist, job_cycle, job) ==
    MapPut(waitlist, job_cycle,
           IF job_cycle \in DOMAIN waitlist
           THEN Append(waitlist[job_cycle], job)
           ELSE <<job>>)

TooOldMsg == "Job is older than the maintained block states"

\* the elector with its generator seeded from the seed and the clock
select_gateway_for_job_id_clock(job, seed, skips, chain, now, ges, waitlist) ==
    LET job_cycle == JobCycle(job.starttime)
        current_cycle == CurrentCycle(now)
    IN  IF IsTooOld(current_cycle, job_cycle)
        THEN [res |-> Err(TooOldMsg), waitlist |-> waitlist]
        ELSE IF job_cycle \notin DOMAIN ges
        THEN [res |-> Ok(ZeroAddress),
              waitlist |-> WaitlistPush(waitlist, job_cycle, job)]
        ELSE [res |-> SelectFromSnapshot(ges[job_cycle], seed + current_cycle,
                                         skips, chain),
              waitlist |-> waitlist]

\* select_gateway_for_job_id: the result and the waitlist it leaves behind
select_gateway_for_job_id(job, seed, skips, chain, now, ges, waitlist) ==
    LET job_cycle == JobCycle(job.starttime)
        current_cycle == CurrentCycle(now)
    IN  IF IsTooOld(current_cycle, job_cycle)
        THEN [res |-> Err(TooOldMsg), waitlist |-> waitlist]
        ELSE IF job_cycle \notin DOMAIN ges
        THEN [res |-> Ok(ZeroAddress),
              waitlist |-> WaitlistPush(waitlist, job_cycle, job)]
        ELSE [res |-> SelectFromSnapshot(ges[job_cycle], seed, skips, chain),
              waitlist |-> waitlist]

\* ------------------------------------------------------------------ events
Event(kind, job, res) ==
    [kind |-> kind, job |-> job, res |-> res,
     seed |-> 0, skips |-> 0, chain |-> 0, misses |-> 0, deadline |-> 0]

NoEvent == Event("init", NoJob, NoRes)

NoElect == [seed |-> 0, skips |-> 0, chain |-> 0, cycle |-> 0, res |-> NoRes,
            at |-> 0, repeated |-> FALSE, prev_res |-> NoRes, prev_at |-> 0]

\* ------------------------------------------------------- gateway snapshots
GatewayData(addr, stake, chains, draining) ==
    [address |-> addr, stake_amount |-> stake, req_chain_ids |-> chains,
     draining |-> draining, last_block_number |-> 5600]

\* what a snapshot may hold for address a: a stake at the threshold, a
\* draining gateway, a gateway of request chain 1 only, and one gateway of
\* both chains for every stake above the threshold
GatewayChoices(a) ==
    {GatewayData(a, MIN_GATEWAY_STAKE, {1, 2}, FALSE),
     GatewayData(a, MIN_GATEWAY_STAKE + 1, {1, 2}, TRUE),
     GatewayData(a, MIN_GATEWAY_STAKE + 1, {1}, FALSE)}
    \cup {GatewayData(a, s, {1, 2}, FALSE) : s \in (MIN_GATEWAY_STAKE + 1)..MaxStake}

\* every snapshot over the gateway addresses
AllSnapshots ==
    UNION {[S -> UNION {GatewayChoices(a) : a \in S}] : S \in SUBSET GatewayAddrs}

Snapshots == {m \in AllSnapshots : \A a \in DOMAIN m : m[a].address = a}

\* ------------------------------------------------------------------- clock
Tick ==
    /\ CurrentCycle(ts) < MaxCycle
    /\ ts' = ts + TickSecs
    /\ ev' = Event("tick", NoJob, NoRes)
    /\ UNCHANGED <<gateway_epoch_state, gateway_epoch_state_waitlist, active_jobs,
                   com_chain_tx, placing, timers, com_chain_logs, nlogs, last_elect>>
    /\ UNCHANGED <<other_vars, stream>>

\* --------------------------------------------- direct calls of the elector
ElectCall(job, seed, skips) ==
    LET r == select_gateway_for_job_id(job, seed, skips, job.request_chain_id, ts,
                                       gateway_epoch_state, gateway_epoch_state_waitlist)
        c == JobCycle(job.starttime)
    IN  /\ (c \in DOMAIN gateway_epoch_state_waitlist
              => Len(gateway_epoch_state_waitlist[c]) < MaxWait)
        /\ gateway_epoch_state_waitlist' = r.waitlist
        /\ ev' = [Event("elect", job, r.res) EXCEPT
                    !.seed = seed, !.skips = skips, !.chain = job.request_chain_id]
        /\ LET repeated == /\ last_elect.seed = seed
                            /\ last_elect.skips = skips
                            /\ last_elect.chain = job.request_chain_id
                            /\ last_elect.cycle = c
                            /\ last_elect.res.kind = "Ok"
           IN  last_elect' = [seed |-> seed, skips |-> skips,
                              chain |-> job.request_chain_id, cycle |-> c,
                              res |-> r.res, at |-> ts, repeated |-> repeated,
                              prev_res |-> IF repeated THEN last_elect.res ELSE NoRes,
                              prev_at |-> IF repeated THEN last_elect.at ELSE 0]
        /\ UNCHANGED <<ts, gateway_epoch_state, active_jobs, com_chain_tx, placing,
                       timers, com_chain_logs, nlogs>>
        /\ UNCHANGED <<other_vars, stream>>

\* no handler task is spawned and no response is queued at construction
InitLifecycle ==
    /\ stream = <<>>
    /\ handlers = <<>>
    /\ req_chain_tx = <<>>
    /\ ncom = 0

\* the gateway epoch state service sleeps until its first wake
InitEpochTask == epoch_task = [pc |-> "sleep", e |-> -1, drained |-> 0]

\* the key of the common chain among the registration listeners
CommonChain == 0

RegistrationChains == {CommonChain} \cup request_chain_ids

\* the coordinator runs: wait_for_registration has seen every chain and has
\* spawned run
InitRegistered ==
    /\ reg_listeners = [c \in RegistrationChains |-> "done"]
    /\ reg_rx = <<>>
    /\ common_chain_registered = TRUE
    /\ req_chain_ids_not_registered = {}
    /\ registered = TRUE
    /\ run_started = 1
    /\ reg_seen = RegistrationChains
    /\ nreglogs = 0

\* no subscription is known and the manager loops
InitSubscriptions ==
    /\ subscription_jobs = <<>>
    /\ subscription_job_heap = <<>>
    /\ sub_triggers = <<>>
    /\ triggered = <<>>
    /\ sub_admitted = <<>>
    /\ sub_manager = "running"
    /\ sub_updates = <<>>

\* Option::None of a block number or of a transaction hash
NoneNumber == -1

\* H256::zero()
ZeroHash == 0

\* the fields of a Log that confirm_event reads or writes
ConfirmLog(block_number, transaction_hash, removed) ==
    [block_number |-> block_number, transaction_hash |-> transaction_hash, removed |-> removed]

\* the arguments and locals of confirm_event (lines 392-408); the cap on
\* the receipt retries is the constant imported at line 18
ConfirmCall(pc, log, confirmation_blocks, last_seen_block, cap) ==
    [pc |-> pc, log |-> log, confirmation_blocks |-> confirmation_blocks,
     last_seen_block |-> last_seen_block, retries |-> 0, first_iteration |-> TRUE,
     MAX_TX_RECEIPT_RETRIES |-> cap]

\* confirm_event was not called
InitConfirm == confirm = ConfirmCall("idle", ConfirmLog(NoneNumber, NoneNumber, "none"), 0, 0, 1)

\* the attempts at reading the head (line 75)
HeadAttempts == 5

\* u64::MAX (line 100), here any number above every block number
U64Max == 1000000

\* the arguments and locals of get_block_number_by_timestamp (lines 70-100):
\* chain[n] is the timestamp of block n, the rate is a fraction that starts
\* as 3.0, and the cap on the provider errors is the constant imported at
\* line 18
FinderCall(pc, chain, target_timestamp, cap) ==
    [pc |-> pc, chain |-> chain, target_timestamp |-> target_timestamp,
     attempts |-> 0, head |-> NoneNumber, block_number |-> 0,
     rate_num |-> 3, rate_den |-> 1,
     first_block_number |-> 0, first_block_timestamp |-> 0,
     earliest_block_number_after_target_ts |-> U64Max,
     retry_on_error |-> 0, MAX_RETRY_ON_PROVIDER_ERROR |-> cap, result |-> NoneNumber]

\* get_block_number_by_timestamp was not called
InitFinder == finder = FinderCall("idle", <<>>, 0, 0)

\* run has made the two channels and spawned the two egress loops (lines
\* 235, 255-257, 262-266), the subscription manager has its control channel,
\* and every channel has a sender
InitChannels ==
    channels = [txns_to_common_chain |-> "running", txns_to_request_chain |-> "running",
                com_chain_senders |-> TRUE, req_chain_senders |-> TRUE,
                job_sub_senders |-> TRUE]

InitUtil == InitConfirm /\ InitFinder /\ InitChannels

InitOther == InitLifecycle /\ InitEpochTask /\ InitRegistered /\ InitSubscriptions /\ InitUtil

InitElect ==
    /\ InitOther
    /\ ts = CycleStart(0)
    /\ gateway_epoch_state \in {<<>>} \cup {[c \in {0} |-> s] : s \in Snapshots}
    /\ gateway_epoch_state_waitlist = <<>>
    /\ active_jobs = <<>>
    /\ com_chain_tx = <<>>
    /\ placing = <<>>
    /\ timers = <<>>
    /\ com_chain_logs = <<>>
    /\ nlogs = 0
    /\ ev = NoEvent
    /\ last_elect = NoElect

NextElect ==
    \/ Tick
    \/ \E chain \in request_chain_ids, st \in ElectSeeds, skips \in 1..MaxSkips :
          ElectCall(NewJob(1, chain, st, skips), st, skips)

SpecElect == InitElect /\ [][NextElect]_vars

\* ------------------------------------------------------ common-chain logs
JobRelayedTopic == "JobRelayed(uint256,uint256,address,address)"

Uint(v) == [type |-> "Uint", value |-> v]
AddressToken(v) == [type |-> "Address", value |-> v]

\* a JobRelayed log of the gateway-jobs contract: job id in topics[1], the
\* data laid out as the four types the timer decodes
JobRelayedComLog(job_id, job_owner, gateway) ==
    [topics |-> <<JobRelayedTopic, job_id>>,
     data |-> <<Uint(job_id), Uint(100), AddressToken(job_owner), AddressToken(gateway)>>]

\* Token::into_address: Some(address) of an Address token, None otherwise
into_address(token) == IF token.type = "Address" THEN token.value ELSE NoneAddr

\* gateways_job_relayed_logs: the logs with topic0 JobRelayed and topic1 job_id
gateways_job_relayed_logs(job, logs) ==
    SelectSeq(logs, LAMBDA l : l.topics[1] = JobRelayedTopic /\ l.topics[2] = job.job_id)

\* the loop over the logs (lines 480-510): "relayed" when a log passes the
\* test, "panic" when an unwrap fails, "none" when the loop runs out
RECURSIVE ScanLogs(_, _, _)
ScanLogs(logs, job, i) ==
    IF i > Len(logs) THEN "none"
    ELSE IF logs[i].topics[1] # JobRelayedTopic THEN ScanLogs(logs, job, i + 1)
    ELSE LET decoded == logs[i].data
             job_id == logs[i].topics[2]
             job_owner == into_address(decoded[2])
             gateway_operator == into_address(decoded[3])
         IN  IF job_owner = NoneAddr \/ gateway_operator = NoneAddr THEN "panic"
             ELSE IF /\ job_id = job.job_id
                     /\ job_owner = job.job_owner
                     /\ gateway_operator # ZeroAddress
                     /\ gateway_operator # job.gateway_address
                  THEN "relayed"
             ELSE ScanLogs(logs, job, i + 1)

\* ------------------------------------------------- request-chain ingress
\* what the stream of a request chain delivered: the event, the job id in
\* topics[1] and the removed marker
StreamLog(topic, job_id, chain, removed) ==
    [topic |-> topic, job_id |-> job_id, chain |-> chain, removed |-> removed]

\* a spawned placement task: its job, the timeouts its job has seen and how
\* far the task has come
Task(job, misses) == [job |-> job, misses |-> misses, pc |-> "start"]

\* the job built with the position of its log in the stream as sequence number
JobRelayedLogCounting(job_id, chain, starttime, removed) ==
    /\ nlogs < MaxLogs
    /\ nlogs' = nlogs + 1
    /\ IF removed = "false"
       THEN /\ placing' = Append(placing,
                                 Task(NewJob(job_id, chain, starttime, nlogs + 1), 0))
            /\ ev' = Event("log", NewJob(job_id, chain, starttime, nlogs + 1), NoRes)
       ELSE /\ placing' = placing
            /\ ev' = Event("log_skipped", NoJob, NoRes)
    /\ stream' = Append(stream, StreamLog("JobRelayed", job_id, chain, removed))
    /\ UNCHANGED <<ts, gateway_epoch_state, gateway_epoch_state_waitlist, active_jobs,
                   com_chain_tx, timers, com_chain_logs, last_elect>>
    /\ UNCHANGED other_vars

\* one log of the request-chain stream (lines 301-341): a JobRelayed log that
\* is not marked removed spawns job_placed_handler with sequence number 1
JobRelayedLog(job_id, chain, starttime, removed) ==
    /\ nlogs < MaxLogs
    /\ nlogs' = nlogs + 1
    /\ IF removed = "false"
       THEN /\ placing' = Append(placing, Task(NewJob(job_id, chain, starttime, 1), 0))
            /\ ev' = Event("log", NewJob(job_id, chain, starttime, 1), NoRes)
       ELSE /\ placing' = placing
            /\ ev' = Event("log_skipped", NoJob, NoRes)
    /\ stream' = Append(stream, StreamLog("JobRelayed", job_id, chain, removed))
    /\ UNCHANGED <<ts, gateway_epoch_state, gateway_epoch_state_waitlist, active_jobs,
                   com_chain_tx, timers, com_chain_logs, last_elect>>
    /\ UNCHANGED other_vars

NoTimeout == -1

\* the sleep taken in milliseconds instead of seconds
SleepSecsAsMillis(job_timeout) ==
    (IF job_timeout = NoTimeout THEN REQUEST_RELAY_TIMEOUT ELSE job_timeout) \div 1000

\* the sleep of job_relayed_slash_timer (lines 465-468)
SleepSecs(job_timeout) ==
    IF job_timeout = NoTimeout THEN REQUEST_RELAY_TIMEOUT ELSE job_timeout

Timer(job, job_timeout, now, misses) ==
    [job |-> job, job_timeout |-> SleepSecs(job_timeout),
     wake |-> now + SleepSecs(job_timeout), misses |-> misses]

\* the job left without its gateway address
WithGatewayForgotten(job, gateway_address) == job

\* job.gateway_address = Some(gateway_address) (line 431)
WithGateway(job, gateway_address) == [job EXCEPT !.gateway_address = gateway_address]

\* job_placed_handler (lines 412-456), run by the i-th spawned task
job_placed_handler(i) ==
    LET job == placing[i].job
        r == select_gateway_for_job_id(job, job.starttime, job.sequence_number,
                                       job.request_chain_id, ts,
                                       gateway_epoch_state, gateway_epoch_state_waitlist)
        gateway_address == r.res.addr
        placed == WithGateway(job, gateway_address)
    IN  /\ placing' = RemoveAt(placing, i)
        /\ gateway_epoch_state_waitlist' = r.waitlist
        /\ ev' = [Event("place", job, r.res) EXCEPT
                    !.seed = job.starttime, !.skips = job.sequence_number,
                    !.chain = job.request_chain_id, !.misses = placing[i].misses]
        /\ IF r.res.kind = "Ok" /\ gateway_address # ZeroAddress
           THEN IF gateway_address = enclave_address
                THEN /\ active_jobs' = MapPut(active_jobs, job.job_id, placed)
                     /\ com_chain_tx' = Append(com_chain_tx, placed)
                     /\ timers' = timers
                ELSE /\ timers' = Append(timers,
                                         Timer(placed, NoTimeout, ts, placing[i].misses))
                     /\ UNCHANGED <<active_jobs, com_chain_tx>>
           ELSE UNCHANGED <<active_jobs, com_chain_tx, timers>>
        /\ UNCHANGED <<ts, gateway_epoch_state, com_chain_logs, nlogs, last_elect>>
        /\ UNCHANGED <<other_vars, stream>>

\* the retry test against MAX_GATEWAY_RETRIES + 1
RetriesExhaustedLate(sequence_number) == sequence_number > MAX_GATEWAY_RETRIES + 1

\* the retry test with >= for >
RetriesExhaustedEarly(sequence_number) == sequence_number >= MAX_GATEWAY_RETRIES

\* the retry test of line 524
RetriesExhausted(sequence_number) == sequence_number > MAX_GATEWAY_RETRIES

\* job_relayed_slash_timer after its sleep (lines 474-533), run by the i-th
\* sleeping task
job_relayed_slash_timer(i) ==
    LET job == timers[i].job
        logs == gateways_job_relayed_logs(job, com_chain_logs)
        verdict == ScanLogs(logs, job, 1)
        job_clone == [job EXCEPT !.job_type = "SlashGatewayJob"]
        sequence_number == job.sequence_number + 1
        retry == [job EXCEPT !.sequence_number = sequence_number,
                             !.gateway_address = NoneAddr]
        misses == timers[i].misses + 1
    IN  /\ ts >= timers[i].wake
        /\ timers' = RemoveAt(timers, i)
        /\ IF verdict = "none"
           THEN /\ com_chain_tx' = Append(com_chain_tx, job_clone)
                /\ IF RetriesExhausted(sequence_number)
                   THEN /\ placing' = placing
                        /\ ev' = [Event("timer", job, [NoRes EXCEPT !.kind = "MaxRetries"])
                                    EXCEPT !.misses = misses, !.deadline = timers[i].wake]
                   ELSE /\ placing' = Append(placing, Task(retry, misses))
                        /\ ev' = [Event("timer", job, [NoRes EXCEPT !.kind = "Retry"])
                                    EXCEPT !.misses = misses, !.deadline = timers[i].wake]
           ELSE /\ UNCHANGED <<com_chain_tx, placing>>
                /\ ev' = [Event("timer", job,
                                IF verdict = "relayed"
                                THEN [NoRes EXCEPT !.kind = "Relayed"]
                                ELSE Panic("called Option::unwrap() on a None value"))
                            EXCEPT !.misses = timers[i].misses, !.deadline = timers[i].wake]
        /\ UNCHANGED <<ts, gateway_epoch_state, gateway_epoch_state_waitlist, active_jobs,
                       com_chain_logs, nlogs, last_elect>>
        /\ UNCHANGED <<other_vars, stream>>

\* a gateway relays a job on the common chain: the gateway-jobs contract
\* emits JobRelayed
CommonChainJobRelayed(job_id, job_owner, gateway) ==
    /\ Len(com_chain_logs) < MaxComLogs
    /\ com_chain_logs' = Append(com_chain_logs, JobRelayedComLog(job_id, job_owner, gateway))
    /\ ev' = Event("com_log", NoJob, NoRes)
    /\ UNCHANGED <<ts, gateway_epoch_state, gateway_epoch_state_waitlist, active_jobs,
                   com_chain_tx, placing, timers, nlogs, last_elect>>
    /\ UNCHANGED <<other_vars, stream>>

\* what is left of an egress loop after one job (lines 655-666, 711-720,
\* 1076-1084): the Option of the signing function is unwrapped inside the
\* loop's own task, so a signature that could not be made ends the loop;
\* a signature that does not decode, a transaction that is not accepted and
\* one that is not confirmed are logged and the loop goes on
EgressLoopAfter(outcome) == IF outcome = "sign_failed" THEN "panicked" ELSE "running"

\* how handling one job can end
EgressOutcomes == {"confirmed", "failed", "decode_failed", "sign_failed"}

\* the loop with a job whose transaction failed sent to the channel again
txns_to_common_chain_resending(outcome) ==
    /\ channels.txns_to_common_chain = "running"
    /\ Len(com_chain_tx) > 0
    /\ com_chain_tx' = IF outcome \in {"failed", "decode_failed"}
                       THEN Append(Tail(com_chain_tx), Head(com_chain_tx))
                       ELSE Tail(com_chain_tx)
    /\ channels' = [channels EXCEPT !.txns_to_common_chain = EgressLoopAfter(outcome)]
    /\ ev' = Event(IF Head(com_chain_tx).job_type = "JobRelay"
                   THEN "relay_job_txn" ELSE "reassign_gateway_relay_txn",
                   Head(com_chain_tx), [NoRes EXCEPT !.kind = outcome])
    /\ UNCHANGED <<ts, gateway_epoch_state, gateway_epoch_state_waitlist, active_jobs,
                   placing, timers, com_chain_logs, nlogs, last_elect>>
    /\ UNCHANGED <<lifecycle_vars, epoch_task, reg_vars, sub_vars, confirm, finder, stream>>

\* txns_to_common_chain (lines 633-651): the head of the channel is sent as a
\* relayJob or a reassignGatewayRelay transaction (lines 653-758)
txns_to_common_chain(outcome) ==
    /\ channels.txns_to_common_chain = "running"
    /\ Len(com_chain_tx) > 0
    /\ com_chain_tx' = Tail(com_chain_tx)
    /\ channels' = [channels EXCEPT !.txns_to_common_chain = EgressLoopAfter(outcome)]
    /\ ev' = Event(IF Head(com_chain_tx).job_type = "JobRelay"
                   THEN "relay_job_txn" ELSE "reassign_gateway_relay_txn",
                   Head(com_chain_tx), [NoRes EXCEPT !.kind = outcome])
    /\ UNCHANGED <<ts, gateway_epoch_state, gateway_epoch_state_waitlist, active_jobs,
                   placing, timers, com_chain_logs, nlogs, last_elect>>
    /\ UNCHANGED <<lifecycle_vars, epoch_task, reg_vars, sub_vars, confirm, finder, stream>>

\* ------------------------------------------------------- the coordinator
\* the snapshots the epoch state holds at start-up
SnapSelf == (enclave_address :> GatewayData(enclave_address, 2, {1, 2}, FALSE))
SnapOthers == (1 :> GatewayData(1, 2, {1, 2}, FALSE)) @@ (3 :> GatewayData(3, 3, {1, 2}, FALSE))
SnapMixed == (1 :> GatewayData(1, 2, {1, 2}, FALSE))
             @@ (enclave_address :> GatewayData(enclave_address, 3, {1}, FALSE))
             @@ (3 :> GatewayData(3, 2, {1, 2}, FALSE))
SnapDraining == (1 :> GatewayData(1, 2, {1, 2}, TRUE))
SnapEmpty == <<>>
StartSnapshots == {SnapSelf, SnapOthers, SnapMixed, SnapDraining, SnapEmpty}

\* the client starts with no snapshot or with the snapshot of cycle 0
StartEpochStates == {<<>>} \cup {[c \in {0} |-> s] : s \in StartSnapshots}

Init ==
    /\ InitOther
    /\ ts = CycleStart(0)
    /\ gateway_epoch_state \in StartEpochStates
    /\ gateway_epoch_state_waitlist = <<>>
    /\ active_jobs = <<>>
    /\ com_chain_tx = <<>>
    /\ placing = <<>>
    /\ timers = <<>>
    /\ com_chain_logs = <<>>
    /\ nlogs = 0
    /\ ev = NoEvent
    /\ last_elect = NoElect

Next ==
    \/ Tick
    \/ \E j \in JobIds, chain \in request_chain_ids, st \in StartTimes,
          removed \in {"false", "true", "none"} : JobRelayedLog(j, chain, st, removed)
    \/ \E i \in 1..Len(placing) : job_placed_handler(i)
    \/ \E i \in 1..Len(timers) : job_relayed_slash_timer(i)
    \/ \E j \in JobIds, chain \in request_chain_ids :
          CommonChainJobRelayed(j, RelayContractAddr(chain), 1)
    \/ \E outcome \in {"confirmed", "failed"} : txns_to_common_chain(outcome)

Spec == Init /\ [][Next]_vars

\* ------------------------------- cancellations and common-chain events
MapRemove(m, k) == [x \in DOMAIN m \ {k} |-> m[x]]

\* what a log without job data tells of its job: the id in topics[1]
JobOfId(job_id) == [NoJob EXCEPT !.job_id = job_id]

ResponseJob(job_id, request_chain_id, gateway_address) ==
    [job_id |-> job_id, request_chain_id |-> request_chain_id,
     output |-> 9, total_time |-> 100, error_code |-> 0,
     job_type |-> "JobResponded", gateway_address |-> gateway_address]

NoResponseJob == ResponseJob(0, 0, NoneAddr)

\* a spawned handler task: the log it handles, how far it has come and what
\* it has read so far
HandlerTask(kind, job_id, old_gateway, sequence_number) ==
    [kind |-> kind, job_id |-> job_id, old_gateway |-> old_gateway,
     sequence_number |-> sequence_number, pc |-> "start",
     job |-> NoJob, response_job |-> NoResponseJob]

HandlerEvent(kind, task, res) ==
    Event(kind, [JobOfId(task.job_id) EXCEPT !.sequence_number = task.sequence_number,
                                             !.gateway_address = task.old_gateway], res)

\* one JobCancelled log of the request-chain stream (lines 301-310, 342-353):
\* a log that is not marked removed spawns cancel_job_with_job_id
JobCancelledLog(job_id, chain, removed) ==
    /\ nlogs < MaxLogs + MaxCancels
    /\ nlogs' = nlogs + 1
    /\ stream' = Append(stream, StreamLog("JobCancelled", job_id, chain, removed))
    /\ IF removed = "false"
       THEN /\ handlers' = Append(handlers, HandlerTask("cancel", job_id, NoneAddr, 0))
            /\ ev' = Event("cancel_log", JobOfId(job_id), NoRes)
       ELSE /\ handlers' = handlers
            /\ ev' = Event("log_skipped", NoJob, NoRes)
    /\ UNCHANGED <<ts, gateway_epoch_state, gateway_epoch_state_waitlist, active_jobs,
                   com_chain_tx, placing, timers, com_chain_logs, last_elect, service_vars,
                   req_chain_tx, ncom>>

\* the cancellation emptying active_jobs
cancel_job_clearing(i) ==
    /\ handlers[i].kind = "cancel"
    /\ active_jobs' = <<>>
    /\ handlers' = RemoveAt(handlers, i)
    /\ ev' = HandlerEvent("cancel", handlers[i], NoRes)
    /\ UNCHANGED <<ts, gateway_epoch_state, gateway_epoch_state_waitlist, com_chain_tx,
                   placing, timers, com_chain_logs, nlogs, last_elect, service_vars, req_chain_tx, ncom,
                   stream>>

\* cancel_job_with_job_id (lines 624-631)
cancel_job_with_job_id(i) ==
    /\ handlers[i].kind = "cancel"
    /\ active_jobs' = MapRemove(active_jobs, handlers[i].job_id)
    /\ handlers' = RemoveAt(handlers, i)
    /\ ev' = HandlerEvent("cancel", handlers[i], NoRes)
    /\ UNCHANGED <<ts, gateway_epoch_state, gateway_epoch_state_waitlist, com_chain_tx,
                   placing, timers, com_chain_logs, nlogs, last_elect, service_vars, req_chain_tx, ncom,
                   stream>>

\* one log of the common-chain stream (lines 766-805): JobResponded,
\* JobResourceUnavailable and GatewayReassigned each spawn their handler
ComChainLog(kind, job_id, old_gateway, sequence_number) ==
    /\ ncom < MaxComEvents
    /\ ncom' = ncom + 1
    /\ handlers' = Append(handlers, HandlerTask(kind, job_id, old_gateway, sequence_number))
    /\ ev' = HandlerEvent("com_event", handlers'[Len(handlers')], NoRes)
    /\ UNCHANGED <<ts, gateway_epoch_state, gateway_epoch_state_waitlist, active_jobs,
                   com_chain_tx, placing, timers, com_chain_logs, nlogs, last_elect, service_vars,
                   req_chain_tx, stream>>

\* what a handler step leaves alone besides active_jobs, handlers and the
\* response channel
HandlerFrame ==
    UNCHANGED <<ts, gateway_epoch_state, gateway_epoch_state_waitlist, com_chain_tx,
                placing, timers, com_chain_logs, nlogs, last_elect, service_vars, ncom, stream>>

\* get_job_from_job_responded_event (lines 810-837): the job must be in
\* active_jobs, or the task ends on the unwrap of line 782
get_job_from_job_responded_event(i) ==
    LET job_id == handlers[i].job_id
    IN  /\ handlers[i].kind = "JobResponded" /\ handlers[i].pc = "start"
        /\ IF job_id \in DOMAIN active_jobs
           THEN /\ handlers' = [handlers EXCEPT
                                  ![i].pc = "decoded",
                                  ![i].response_job =
                                      ResponseJob(job_id,
                                                  active_jobs[job_id].request_chain_id,
                                                  NoneAddr)]
                /\ ev' = HandlerEvent("responded_decode", handlers[i], NoRes)
           ELSE /\ handlers' = RemoveAt(handlers, i)
                /\ ev' = HandlerEvent("responded_decode", handlers[i],
                                      Panic("Failed to decode event"))
        /\ UNCHANGED <<active_jobs, req_chain_tx>>
        /\ HandlerFrame

\* job_responded_handler up to its read of active_jobs (lines 839-856)
job_responded_handler(i) ==
    LET job_id == handlers[i].job_id
    IN  /\ handlers[i].kind = "JobResponded" /\ handlers[i].pc = "decoded"
        /\ IF job_id \in DOMAIN active_jobs
           THEN handlers' = [handlers EXCEPT
                               ![i].pc = "read",
                               ![i].job = active_jobs[job_id],
                               ![i].response_job.gateway_address =
                                   active_jobs[job_id].gateway_address]
           ELSE handlers' = RemoveAt(handlers, i)
        /\ ev' = HandlerEvent("responded_read", handlers[i], NoRes)
        /\ UNCHANGED <<active_jobs, req_chain_tx>>
        /\ HandlerFrame

\* the removal without the test of the sequence number
RemoveJobById(active, job) == MapRemove(active, job.job_id)

\* remove_job (lines 898-908): the entry goes only if it still carries the
\* sequence number of the job that was read
RemoveJob(active, job) ==
    IF job.job_id \in DOMAIN active
       /\ active[job.job_id].sequence_number = job.sequence_number
    THEN MapRemove(active, job.job_id)
    ELSE active

\* job_responded_handler from remove_job to the send (lines 859-890)
remove_job(i) ==
    /\ handlers[i].kind = "JobResponded" /\ handlers[i].pc = "read"
    /\ active_jobs' = RemoveJob(active_jobs, handlers[i].job)
    /\ req_chain_tx' = Append(req_chain_tx, handlers[i].response_job)
    /\ handlers' = RemoveAt(handlers, i)
    /\ ev' = Event("remove_job", handlers[i].job, NoRes)
    /\ HandlerFrame

\* txns_to_request_chain (lines 1039-1069): the head of the channel is sent
\* as a jobResponse transaction (lines 1071-1121) and then, unless the loop
\* has ended on the signature, remove_response_job (lines 1123-1126) removes
\* the job id
txns_to_request_chain(outcome) ==
    /\ channels.txns_to_request_chain = "running"
    /\ Len(req_chain_tx) > 0
    /\ req_chain_tx' = Tail(req_chain_tx)
    /\ channels' = [channels EXCEPT !.txns_to_request_chain = EgressLoopAfter(outcome)]
    /\ active_jobs' = IF EgressLoopAfter(outcome) = "running"
                      THEN MapRemove(active_jobs, Head(req_chain_tx).job_id)
                      ELSE active_jobs
    /\ ev' = Event("remove_response_job", JobOfId(Head(req_chain_tx).job_id),
                   [NoRes EXCEPT !.kind = outcome])
    /\ UNCHANGED <<ts, gateway_epoch_state, gateway_epoch_state_waitlist, com_chain_tx,
                   placing, timers, com_chain_logs, nlogs, last_elect, ncom, stream>>
    /\ UNCHANGED <<handlers, epoch_task, reg_vars, sub_vars, confirm, finder>>

\* job_resource_unavailable_handler up to its tests (lines 977-990)
job_resource_unavailable_handler(i) ==
    LET job_id == handlers[i].job_id
    IN  /\ handlers[i].kind = "JobResourceUnavailable" /\ handlers[i].pc = "start"
        /\ IF /\ job_id \in DOMAIN active_jobs
              /\ active_jobs[job_id].gateway_address = enclave_address
           THEN handlers' = [handlers EXCEPT ![i].pc = "checked",
                                             ![i].job = active_jobs[job_id]]
           ELSE handlers' = RemoveAt(handlers, i)
        /\ ev' = HandlerEvent("unavailable_read", handlers[i], NoRes)
        /\ UNCHANGED <<active_jobs, req_chain_tx>>
        /\ HandlerFrame

\* job_resource_unavailable_handler, its removal (lines 992-1003)
job_resource_unavailable_remove(i) ==
    /\ handlers[i].kind = "JobResourceUnavailable" /\ handlers[i].pc = "checked"
    /\ active_jobs' = MapRemove(active_jobs, handlers[i].job_id)
    /\ handlers' = RemoveAt(handlers, i)
    /\ ev' = Event("unavailable_remove", handlers[i].job, NoRes)
    /\ UNCHANGED req_chain_tx
    /\ HandlerFrame

\* the tests of gateway_reassigned_handler without the one of old_gateway
ReassignedPassesAnyGateway(job, old_gateway, sequence_number) ==
    job.sequence_number = sequence_number

\* the tests of gateway_reassigned_handler (lines 1024-1031)
ReassignedPasses(job, old_gateway, sequence_number) ==
    /\ old_gateway = enclave_address
    /\ job.sequence_number = sequence_number

\* gateway_reassigned_handler up to its tests (lines 1006-1031)
gateway_reassigned_handler(i) ==
    LET job_id == handlers[i].job_id
    IN  /\ handlers[i].kind = "GatewayReassigned" /\ handlers[i].pc = "start"
        /\ IF /\ job_id \in DOMAIN active_jobs
              /\ ReassignedPasses(active_jobs[job_id], handlers[i].old_gateway,
                                  handlers[i].sequence_number)
           THEN handlers' = [handlers EXCEPT ![i].pc = "checked",
                                             ![i].job = active_jobs[job_id]]
           ELSE handlers' = RemoveAt(handlers, i)
        /\ ev' = HandlerEvent("reassigned_read", handlers[i], NoRes)
        /\ UNCHANGED <<active_jobs, req_chain_tx>>
        /\ HandlerFrame

\* gateway_reassigned_handler, its removal (lines 1033-1036)
gateway_reassigned_remove(i) ==
    /\ handlers[i].kind = "GatewayReassigned" /\ handlers[i].pc = "checked"
    /\ active_jobs' = MapRemove(active_jobs, handlers[i].job_id)
    /\ handlers' = RemoveAt(handlers, i)
    /\ ev' = HandlerEvent("reassigned_remove", handlers[i], NoRes)
    /\ UNCHANGED req_chain_tx
    /\ HandlerFrame

\* gateway 1 serves request chain 1 only, this enclave serves both chains
SnapCross == (1 :> GatewayData(1, 2, {1}, FALSE))
             @@ (enclave_address :> GatewayData(enclave_address, 2, {1, 2}, FALSE))

InitJobs ==
    /\ InitOther
    /\ ts = CycleStart(0)
    /\ gateway_epoch_state = [c \in {0} |-> SnapCross]
    /\ gateway_epoch_state_waitlist = <<>>
    /\ active_jobs = <<>>
    /\ com_chain_tx = <<>>
    /\ placing = <<>>
    /\ timers = <<>>
    /\ com_chain_logs = <<>>
    /\ nlogs = 0
    /\ ev = NoEvent
    /\ last_elect = NoElect

\* the JobRelayed logs of the request chains: job 1 exists on both chains,
\* job 2 on chain 2
RelayedJobs == {<<1, 1>>, <<1, 2>>, <<2, 2>>}

\* the job the cancellations and the common-chain events are about
EventJobIds == {1}

NextJobs ==
    \/ Tick
    \/ \E jc \in RelayedJobs, st \in StartTimes : JobRelayedLog(jc[1], jc[2], st, "false")
    \/ \E j \in EventJobIds, removed \in {"false", "true"} : JobCancelledLog(j, 2, removed)
    \/ \E i \in 1..Len(placing) : job_placed_handler(i)
    \/ \E i \in 1..Len(timers) : job_relayed_slash_timer(i)
    \/ \E i \in 1..Len(handlers) : cancel_job_with_job_id(i)
    \/ \E j \in EventJobIds : ComChainLog("JobResponded", j, NoneAddr, 0)
    \/ \E j \in EventJobIds : ComChainLog("JobResourceUnavailable", j, NoneAddr, 0)
    \/ \E j \in EventJobIds, g \in {1, enclave_address}, seq \in 1..MAX_GATEWAY_RETRIES :
          ComChainLog("GatewayReassigned", j, g, seq)
    \/ \E i \in 1..Len(handlers) : get_job_from_job_responded_event(i)
    \/ \E i \in 1..Len(handlers) : job_responded_handler(i)
    \/ \E i \in 1..Len(handlers) : remove_job(i)
    \/ \E outcome \in {"confirmed", "failed"} : txns_to_request_chain(outcome)
    \/ \E i \in 1..Len(handlers) : job_resource_unavailable_handler(i)
    \/ \E i \in 1..Len(handlers) : job_resource_unavailable_remove(i)
    \/ \E i \in 1..Len(handlers) : gateway_reassigned_handler(i)
    \/ \E i \in 1..Len(handlers) : gateway_reassigned_remove(i)

SpecJobs == InitJobs /\ [][NextJobs]_vars

\* ------------------------------------------- gateway epoch state service
\* the keys the service keeps when it inserts the snapshot of cycle e
PruneBelow(ges, e) ==
    [c \in {k \in DOMAIN ges : k >= e - GATEWAY_BLOCK_STATES_TO_MAINTAIN} |-> ges[c]]

\* the jobs of a waitlist entry as tasks handed to job_placed_handler
Resubmitted(jobs) == [i \in 1..Len(jobs) |-> Task(jobs[i], 0)]

WaitingFor(waitlist, e) == IF e \in DOMAIN waitlist THEN waitlist[e] ELSE <<>>

\* a wake of the service at wall time ts: the snapshot of the current cycle is
\* inserted under its key and older keys are pruned
gateway_epoch_state_insert(snapshot) ==
    LET e == CurrentCycle(ts)
    IN  /\ epoch_task.pc = "sleep"
        /\ e \notin DOMAIN gateway_epoch_state
        /\ gateway_epoch_state' = PruneBelow(MapPut(gateway_epoch_state, e, snapshot), e)
        /\ epoch_task' = [pc |-> "inserted", e |-> e, drained |-> 0]
        /\ ev' = Event("snapshot", NoJob, NoRes)
        /\ UNCHANGED <<ts, gateway_epoch_state_waitlist, active_jobs, com_chain_tx,
                       placing, timers, com_chain_logs, nlogs, last_elect,
                       lifecycle_vars, stream, reg_vars, sub_vars, util_vars>>

\* the waitlist entry dropped without its jobs being handed on
gateway_epoch_state_drain_dropping ==
    LET e == epoch_task.e
    IN  /\ epoch_task.pc = "inserted"
        /\ placing' = placing
        /\ gateway_epoch_state_waitlist' = MapRemove(gateway_epoch_state_waitlist, e)
        /\ epoch_task' = [pc |-> "sleep", e |-> e,
                          drained |-> Len(WaitingFor(gateway_epoch_state_waitlist, e))]
        /\ ev' = Event("flush", NoJob, NoRes)
        /\ UNCHANGED <<ts, gateway_epoch_state, active_jobs, com_chain_tx, timers,
                       com_chain_logs, nlogs, last_elect, lifecycle_vars, stream, reg_vars, sub_vars, util_vars>>

\* the rest of the wake: the waitlist entry of the cycle is drained and its
\* jobs are handed to the coordinator again, each to a job_placed_handler
gateway_epoch_state_drain ==
    LET e == epoch_task.e
    IN  /\ epoch_task.pc = "inserted"
        /\ placing' = placing \o Resubmitted(WaitingFor(gateway_epoch_state_waitlist, e))
        /\ gateway_epoch_state_waitlist' = MapRemove(gateway_epoch_state_waitlist, e)
        /\ epoch_task' = [pc |-> "sleep", e |-> e,
                          drained |-> Len(WaitingFor(gateway_epoch_state_waitlist, e))]
        /\ ev' = Event("flush", NoJob, NoRes)
        /\ UNCHANGED <<ts, gateway_epoch_state, active_jobs, com_chain_tx, timers,
                       com_chain_logs, nlogs, last_elect, lifecycle_vars, stream, reg_vars, sub_vars, util_vars>>

\* the client before the first wake of the service: no snapshot yet
InitEpoch ==
    /\ InitOther
    /\ ts = CycleStart(0)
    /\ gateway_epoch_state = <<>>
    /\ gateway_epoch_state_waitlist = <<>>
    /\ active_jobs = <<>>
    /\ com_chain_tx = <<>>
    /\ placing = <<>>
    /\ timers = <<>>
    /\ com_chain_logs = <<>>
    /\ nlogs = 0
    /\ ev = NoEvent
    /\ last_elect = NoElect

\* start times in the cycles the clock visits
EpochStartTimes == {CycleStart(0) + 5, CycleStart(TickSecs \div TIME_INTERVAL) + 5}

\* the snapshots the service builds
EpochSnapshots == {SnapSelf, SnapOthers, SnapEmpty}

NextEpoch ==
    \/ Tick
    \/ \E j \in JobIds, st \in EpochStartTimes :
          JobCycle(st) <= CurrentCycle(ts) /\ JobRelayedLog(j, 2, st, "false")
    \/ \E i \in 1..Len(placing) : job_placed_handler(i)
    \/ \E snapshot \in EpochSnapshots : gateway_epoch_state_insert(snapshot)
    \/ gateway_epoch_state_drain

SpecEpoch == InitEpoch /\ [][NextEpoch]_vars

\* ----------------------------------------------------------- registration
RegisteredData(register_type, chain_id) ==
    [register_type |-> register_type, chain_id |-> chain_id]

\* the test with a log without marker taken as not removed
LogRemovedUnlessUnmarked(removed) == removed = "true"

\* log.removed.unwrap_or(true) (lines 124, 177)
LogRemoved(removed) == removed # "false"

\* what wait_for_registration leaves alone
coordinator_vars == <<ts, gateway_epoch_state, gateway_epoch_state_waitlist, active_jobs,
                      com_chain_tx, placing, timers, com_chain_logs, nlogs, last_elect,
                      lifecycle_vars, stream, epoch_task>>

\* one GatewayRegistered log delivered to the listener of a chain (lines
\* 123-144 and 176-194): a log not removed is reported once and ends the
\* listener
GatewayRegisteredLog(chain, removed) ==
    /\ reg_listeners[chain] = "listening"
    /\ nreglogs < MaxRegLogs
    /\ nreglogs' = nreglogs + 1
    /\ IF LogRemoved(removed)
       THEN /\ UNCHANGED <<reg_listeners, reg_rx>>
            /\ ev' = [Event("registered_log_skipped", NoJob, NoRes) EXCEPT !.chain = chain]
       ELSE /\ reg_rx' = Append(reg_rx,
                                IF chain = CommonChain
                                THEN RegisteredData("CommonChain", NoneAddr)
                                ELSE RegisteredData("RequestChain", chain))
            /\ reg_listeners' = [reg_listeners EXCEPT ![chain] = "done"]
            /\ ev' = [Event("registered_log", NoJob, NoRes) EXCEPT !.chain = chain]
    /\ reg_seen' = IF removed = "false" THEN reg_seen \cup {chain} ELSE reg_seen
    /\ UNCHANGED <<common_chain_registered, req_chain_ids_not_registered, registered,
                   run_started>>
    /\ UNCHANGED <<coordinator_vars, sub_vars, util_vars>>

\* the receiving loop of wait_for_registration (lines 209-230), one message
wait_for_registration ==
    LET registered_data == Head(reg_rx)
        common == common_chain_registered \/ registered_data.register_type = "CommonChain"
        missing == IF registered_data.register_type = "RequestChain"
                   THEN req_chain_ids_not_registered \ {registered_data.chain_id}
                   ELSE req_chain_ids_not_registered
    IN  /\ run_started = 0
        /\ reg_rx # <<>>
        /\ reg_rx' = Tail(reg_rx)
        /\ common_chain_registered' = common
        /\ req_chain_ids_not_registered' = missing
        /\ IF common /\ missing = {}
           THEN /\ registered' = TRUE
                /\ run_started' = run_started + 1
           ELSE UNCHANGED <<registered, run_started>>
        /\ ev' = Event("registration_received", NoJob, NoRes)
        /\ UNCHANGED <<reg_listeners, reg_seen, nreglogs>>
        /\ UNCHANGED <<coordinator_vars, sub_vars, util_vars>>

\* wait_for_registration was called: every listener listens, nothing is
\* registered and run was not spawned
InitReg ==
    /\ InitLifecycle /\ InitEpochTask /\ InitSubscriptions /\ InitUtil
    /\ reg_listeners = [c \in RegistrationChains |-> "listening"]
    /\ reg_rx = <<>>
    /\ common_chain_registered = FALSE
    /\ req_chain_ids_not_registered = request_chain_ids
    /\ registered = FALSE
    /\ run_started = 0
    /\ reg_seen = {}
    /\ nreglogs = 0
    /\ ts = CycleStart(0)
    /\ gateway_epoch_state = <<>>
    /\ gateway_epoch_state_waitlist = <<>>
    /\ active_jobs = <<>>
    /\ com_chain_tx = <<>>
    /\ placing = <<>>
    /\ timers = <<>>
    /\ com_chain_logs = <<>>
    /\ nlogs = 0
    /\ ev = NoEvent
    /\ last_elect = NoElect

NextReg ==
    \/ \E chain \in RegistrationChains, removed \in {"false", "true", "none"} :
          GatewayRegisteredLog(chain, removed)
    \/ wait_for_registration

SpecReg == InitReg /\ [][NextReg]_vars

\* ---------------------------------------------------------- subscriptions
SubscriptionJob(subscription_id, request_chain_id, interval, termination_time, starttime) ==
    [subscription_id |-> subscription_id, request_chain_id |-> request_chain_id,
     interval |-> interval, termination_time |-> termination_time,
     starttime |-> starttime, tx_hash |-> 7, code_input |-> 8]

SubscriptionJobHeap(subscription_id, next_trigger_time) ==
    [subscription_id |-> subscription_id, next_trigger_time |-> next_trigger_time]

\* the oldest start time a job may have to be placed (lines 281-283, 355-357)
minimum_timestamp_for_job(current_timestamp) ==
    current_timestamp - (GATEWAY_BLOCK_STATES_TO_MAINTAIN + 1) * TIME_INTERVAL
        - OFFEST_FOR_GATEWAY_EPOCH_STATE_CYCLE

\* the trigger time pushed for a historic log (lines 349-368): one that lies
\* before the minimum is moved to the first instance after it
FastForward(subscription_job, next_trigger_time, current_timestamp) ==
    LET minimum == minimum_timestamp_for_job(current_timestamp)
        instance_count ==
            ((minimum - subscription_job.starttime) \div subscription_job.interval) + 1
    IN  IF next_trigger_time < minimum
        THEN subscription_job.starttime + instance_count * subscription_job.interval
        ELSE next_trigger_time

\* add_next_trigger_time_to_heap (lines 311-378): the subscription map and
\* the heap it leaves behind
add_next_trigger_time_to_heap(jobs, heap, subscription_id, previous_trigger_time, is_historic_log, current_timestamp) ==
    IF subscription_id \notin DOMAIN jobs
    THEN [jobs |-> jobs, heap |-> heap]
    ELSE LET subscription_job == jobs[subscription_id]
             next_trigger_time == previous_trigger_time + subscription_job.interval
         IN  IF next_trigger_time > subscription_job.termination_time
             THEN [jobs |-> MapRemove(jobs, subscription_id), heap |-> heap]
             ELSE [jobs |-> jobs,
                   heap |-> Append(heap,
                                   SubscriptionJobHeap(
                                       subscription_id,
                                       IF is_historic_log
                                       THEN FastForward(subscription_job, next_trigger_time,
                                                        current_timestamp)
                                       ELSE next_trigger_time))]

\* subscription_job_to_relay_job (lines 398-418)
subscription_job_to_relay_job(subscription_job, trigger_timestamp) ==
    LET instance_count ==
            (trigger_timestamp - subscription_job.starttime) \div subscription_job.interval
        instance_starttime ==
            subscription_job.starttime + instance_count * subscription_job.interval
    IN  [NewJob(subscription_job.subscription_id + instance_count,
                subscription_job.request_chain_id, instance_starttime, 1)
            EXCEPT !.tx_hash = subscription_job.tx_hash,
                   !.code_input = subscription_job.code_input]

\* one call of update_subscription_job_params or of
\* update_subscription_job_termination_params: what its log carries and how
\* far it has come
UpdateCall(kind, subscription_id, tx_hash, code_input, termination_time, pc) ==
    [kind |-> kind, subscription_id |-> subscription_id, tx_hash |-> tx_hash,
     code_input |-> code_input, termination_time |-> termination_time, pc |-> pc]

\* the last call has looked its subscription up and not yet written
UpdatePending ==
    Len(sub_updates) > 0 /\ sub_updates[Len(sub_updates)].pc = "checked"

\* a call has panicked holding the write guard of subscription_jobs (lines
\* 458-459, 504-505): the lock is poisoned and every later read().unwrap()
\* or write().unwrap() on it panics
LockPoisoned == \E n \in 1..Len(sub_updates) : sub_updates[n].pc = "panicked"

\* add_subscription_job (lines 221-309): the task spawned at 290-299 builds
\* the future of trigger_subscription_job and ends without awaiting it, for a
\* historic log as for a live one
add_subscription_job(subscription_id, request_chain_id, interval, termination_time, starttime, is_historic_log) ==
    LET subscription_job == SubscriptionJob(subscription_id, request_chain_id, interval,
                                            termination_time, starttime)
        current_timestamp == ts
        r == add_next_trigger_time_to_heap(
                 MapPut(subscription_jobs, subscription_id, subscription_job),
                 subscription_job_heap, subscription_id, starttime, is_historic_log,
                 current_timestamp)
    IN  /\ Len(sub_admitted) < MaxSubLogs
        /\ sub_admitted' = Append(sub_admitted, subscription_job)
        /\ IF termination_time < current_timestamp
           THEN /\ UNCHANGED <<subscription_jobs, subscription_job_heap>>
                /\ ev' = Event("subscription_expired", NoJob, NoRes)
           ELSE IF LockPoisoned
           THEN /\ UNCHANGED <<subscription_jobs, subscription_job_heap>>
                /\ ev' = Event("subscription_add_panicked", NoJob, Panic("PoisonError"))
           ELSE /\ subscription_jobs' = r.jobs
                /\ subscription_job_heap' = r.heap
                /\ ev' = Event("subscription_added", NoJob,
                               [NoRes EXCEPT !.msg = IF is_historic_log
                                                     THEN "historic" ELSE "live"])
        /\ UNCHANGED <<sub_triggers, triggered, sub_manager, sub_updates>>
        /\ UNCHANGED <<coordinator_vars, reg_vars, util_vars>>

\* the entries the heap may pop: those of the least next_trigger_time
HeapTop(heap) ==
    {i \in 1..Len(heap) :
        \A k \in 1..Len(heap) : heap[i].next_trigger_time <= heap[k].next_trigger_time}

\* a heap entry as the event of the manager reports it: the subscription id
\* as job_id, the trigger time as starttime
PoppedEntry(subscription) ==
    [NoJob EXCEPT !.job_id = subscription.subscription_id,
                  !.starttime = subscription.next_trigger_time]

\* one turn of job_subscription_manager through its sleep branch (lines
\* 161-211), popping the i-th entry
job_subscription_manager(i) ==
    LET subscription == subscription_job_heap[i]
        popped == RemoveAt(subscription_job_heap, i)
        r == add_next_trigger_time_to_heap(subscription_jobs, popped,
                                           subscription.subscription_id,
                                           subscription.next_trigger_time, FALSE, ts)
    IN  /\ sub_manager = "running"
        /\ i \in HeapTop(subscription_job_heap)
        /\ ts >= subscription.next_trigger_time
        /\ IF LockPoisoned
           THEN /\ subscription_job_heap' = popped
                /\ sub_manager' = "panicked"
                /\ UNCHANGED <<subscription_jobs, sub_triggers>>
                /\ ev' = Event("subscription_manager_panicked", PoppedEntry(subscription),
                               Panic("PoisonError"))
           ELSE IF subscription.subscription_id \notin DOMAIN subscription_jobs
           THEN /\ subscription_job_heap' = popped
                /\ sub_manager' = "returned"
                /\ UNCHANGED <<subscription_jobs, sub_triggers>>
                /\ ev' = Event("subscription_manager_returned", PoppedEntry(subscription),
                               NoRes)
           ELSE /\ sub_triggers' =
                      Append(sub_triggers,
                             [subscription_job |->
                                  subscription_jobs[subscription.subscription_id],
                              trigger_timestamp |-> subscription.next_trigger_time])
                /\ subscription_jobs' = r.jobs
                /\ subscription_job_heap' = r.heap
                /\ sub_manager' = sub_manager
                /\ ev' = Event("subscription_popped", PoppedEntry(subscription), NoRes)
        /\ UNCHANGED <<triggered, sub_admitted, sub_updates>>
        /\ UNCHANGED <<coordinator_vars, reg_vars, util_vars>>

\* trigger_subscription_job (lines 380-396), run by the i-th spawned task:
\* the instance job is handed to the coordinator
trigger_subscription_job(i) ==
    LET job == subscription_job_to_relay_job(sub_triggers[i].subscription_job,
                                             sub_triggers[i].trigger_timestamp)
    IN  /\ sub_triggers' = RemoveAt(sub_triggers, i)
        /\ triggered' = Append(triggered,
                               [subscription_id |->
                                    sub_triggers[i].subscription_job.subscription_id,
                                trigger_timestamp |-> sub_triggers[i].trigger_timestamp,
                                job |-> job])
        /\ ev' = Event("subscription_triggered", job, NoRes)
        /\ UNCHANGED <<subscription_jobs, subscription_job_heap, sub_admitted, sub_manager,
                       sub_updates>>
        /\ UNCHANGED <<coordinator_vars, reg_vars, util_vars>>

\* the first half of both update functions (lines 435-450, 482-497): the
\* subscription is looked up under the read lock; an unknown id is an error.
\* The calls come one after the other from the loop over the logs (lines
\* 105-134)
update_lookup(call) ==
    /\ Len(sub_updates) < MaxSubUpdates
    /\ ~UpdatePending /\ ~LockPoisoned
    /\ IF call.subscription_id \notin DOMAIN subscription_jobs
       THEN /\ sub_updates' = Append(sub_updates, [call EXCEPT !.pc = "failed"])
            /\ ev' = Event("subscription_update_failed", JobOfId(call.subscription_id),
                           Err("NoSubscriptionJobFound"))
       ELSE /\ sub_updates' = Append(sub_updates, [call EXCEPT !.pc = "checked"])
            /\ ev' = Event("subscription_update_checked", JobOfId(call.subscription_id),
                           NoRes)
    /\ UNCHANGED <<subscription_jobs, subscription_job_heap, sub_triggers, triggered,
                   sub_admitted, sub_manager>>
    /\ UNCHANGED <<coordinator_vars, reg_vars, util_vars>>

\* update_subscription_job_params (lines 420-465) up to its write
update_subscription_job_params(subscription_id, new_tx_hash, new_code_input) ==
    update_lookup(UpdateCall("params", subscription_id, new_tx_hash, new_code_input, 0, ""))

\* update_subscription_job_termination_params (lines 467-510) up to its write
update_subscription_job_termination_params(subscription_id, new_termination_time) ==
    update_lookup(UpdateCall("termination", subscription_id, 0, 0, new_termination_time, ""))

\* the entry with every field taken from the log, the start time too
ApplyUpdateRestarting(subscription_job, call) ==
    [subscription_job EXCEPT !.tx_hash = call.tx_hash, !.code_input = call.code_input,
                             !.termination_time = call.termination_time,
                             !.starttime = call.termination_time]

\* the assignments of lines 460-461 and of line 506
ApplyUpdate(subscription_job, call) ==
    IF call.kind = "params"
    THEN [subscription_job EXCEPT !.tx_hash = call.tx_hash,
                                  !.code_input = call.code_input]
    ELSE [subscription_job EXCEPT !.termination_time = call.termination_time]

\* the second half of both update functions (lines 456-462, 501-507): under
\* the write lock the entry is fetched again with get_mut(..).unwrap() and
\* assigned to; when the entry has gone since the lookup the unwrap panics
\* with the guard held
update_subscription_job_write ==
    LET call == sub_updates[Len(sub_updates)]
        subscription_id == call.subscription_id
    IN  /\ UpdatePending
        /\ IF subscription_id \in DOMAIN subscription_jobs
           THEN /\ subscription_jobs' =
                      [subscription_jobs EXCEPT
                         ![subscription_id] = ApplyUpdate(subscription_jobs[subscription_id],
                                                          call)]
                /\ sub_updates' = [sub_updates EXCEPT ![Len(sub_updates)].pc = "applied"]
                /\ ev' = Event("subscription_updated", JobOfId(subscription_id), NoRes)
           ELSE /\ subscription_jobs' = subscription_jobs
                /\ sub_updates' = [sub_updates EXCEPT ![Len(sub_updates)].pc = "panicked"]
                /\ ev' = Event("subscription_update_panicked", JobOfId(subscription_id),
                               Panic("called Option::unwrap() on a None value"))
        /\ UNCHANGED <<subscription_job_heap, sub_triggers, triggered, sub_admitted,
                       sub_manager>>
        /\ UNCHANGED <<coordinator_vars, reg_vars, util_vars>>

SubscriptionIds == {1, 2}

\* the intervals and the lifetimes of the subscriptions
SubscriptionIntervals == {TickSecs, 2 * TickSecs}
SubscriptionLifetimes == {-1, TickSecs, 2 * TickSecs}

NextSub ==
    \/ Tick
    \/ \E id \in SubscriptionIds, interval \in SubscriptionIntervals,
          lifetime \in SubscriptionLifetimes :
          add_subscription_job(id, 1, interval, ts + lifetime, ts, FALSE)
    \/ \E i \in 1..Len(subscription_job_heap) : job_subscription_manager(i)
    \/ \E i \in 1..Len(sub_triggers) : trigger_subscription_job(i)

SpecSub == InitEpoch /\ [][NextSub]_vars

\* the historic log: a subscription started long ago, of a long interval,
\* that terminates soon
HistoricSubscription ==
    [age |-> 5 * TickSecs + TickSecs \div 2, interval |-> 3 * TickSecs,
     lifetime |-> TickSecs \div 3]

\* live and historic logs, and updates of the termination time
NextSubUpd ==
    \/ Tick
    \/ \E id \in SubscriptionIds :
          add_subscription_job(id, 1, TickSecs, ts + TickSecs, ts, FALSE)
    \/ add_subscription_job(1, 1, HistoricSubscription.interval,
                            ts + HistoricSubscription.lifetime,
                            ts - HistoricSubscription.age, TRUE)
    \/ \E id \in SubscriptionIds, new_lifetime \in {0, 3 * TickSecs} :
          update_subscription_job_termination_params(id, ts + new_lifetime)
    \/ update_subscription_job_write
    \/ \E i \in 1..Len(subscription_job_heap) : job_subscription_manager(i)
    \/ \E i \in 1..Len(sub_triggers) : trigger_subscription_job(i)

SpecSubUpd == InitEpoch /\ [][NextSubUpd]_vars

\* ------------------------------------------- the subscription scenario
\* SubscriptionStarted(id=42, start=1_700_000_000, interval=60,
\* termination=1_700_000_180) on request chain 1
ScenarioSubscription == SubscriptionJob(42, 1, 60, 1700000180, 1700000000)

\* the clock of the scenario: it starts at the start time and is looked at
\* once per interval until the termination time is well past
ScenarioTick ==
    /\ ts < ScenarioSubscription.termination_time + 2 * ScenarioSubscription.interval
    /\ ts' = ts + ScenarioSubscription.interval
    /\ ev' = Event("tick", NoJob, NoRes)
    /\ UNCHANGED <<gateway_epoch_state, gateway_epoch_state_waitlist, active_jobs,
                   com_chain_tx, placing, timers, com_chain_logs, nlogs, last_elect>>
    /\ UNCHANGED <<other_vars, stream>>

InitScenario ==
    /\ InitOther
    /\ ts = ScenarioSubscription.starttime
    /\ gateway_epoch_state = <<>>
    /\ gateway_epoch_state_waitlist = <<>>
    /\ active_jobs = <<>>
    /\ com_chain_tx = <<>>
    /\ placing = <<>>
    /\ timers = <<>>
    /\ com_chain_logs = <<>>
    /\ nlogs = 0
    /\ ev = NoEvent
    /\ last_elect = NoElect

\* the log of the scenario arrives once, live; a second subscription of
\* another id and a longer interval may run next to it
NextScenario ==
    \/ ScenarioTick
    \/ /\ \A n \in 1..Len(sub_admitted) :
             sub_admitted[n].subscription_id # ScenarioSubscription.subscription_id
       /\ ts = ScenarioSubscription.starttime
       /\ add_subscription_job(ScenarioSubscription.subscription_id,
                               ScenarioSubscription.request_chain_id,
                               ScenarioSubscription.interval,
                               ScenarioSubscription.termination_time,
                               ScenarioSubscription.starttime, FALSE)
    \/ /\ \A n \in 1..Len(sub_admitted) : sub_admitted[n].subscription_id # 1
       /\ add_subscription_job(1, 1, 2 * ScenarioSubscription.interval,
                               ScenarioSubscription.termination_time, ts, FALSE)
    \/ \E i \in 1..Len(subscription_job_heap) : job_subscription_manager(i)
    \/ \E i \in 1..Len(sub_triggers) : trigger_subscription_job(i)

SpecScenario == InitScenario /\ [][NextScenario]_vars

\* ---------------------------------------------------- historic replay
\* the age below which a start time is still at or after
\* minimum_timestamp_for_job
MinViableAge == (GATEWAY_BLOCK_STATES_TO_MAINTAIN + 1) * TIME_INTERVAL
                    + OFFEST_FOR_GATEWAY_EPOCH_STATE_CYCLE

\* the log replayed, one per run: how long ago the subscription started, its
\* interval and how long it still runs
HistoricAges == {0, MinViableAge, MinViableAge + MinViableAge \div 2, 2 * MinViableAge,
                 2 * MinViableAge + 100, HistoricSubscription.age}
HistoricIntervals == {MinViableAge \div 2, 700, HistoricSubscription.interval}
HistoricLifetimes == {-1, 0, HistoricSubscription.lifetime, 500}

NextHistoric ==
    \/ Tick
    \/ /\ sub_admitted = <<>>
       /\ \E age \in HistoricAges, interval \in HistoricIntervals,
             lifetime \in HistoricLifetimes :
             add_subscription_job(1, 1, interval, ts + lifetime, ts - age, TRUE)
    \/ \E i \in 1..Len(subscription_job_heap) : job_subscription_manager(i)
    \/ \E i \in 1..Len(sub_triggers) : trigger_subscription_job(i)

SpecHistoric == InitEpoch /\ [][NextHistoric]_vars

\* ------------------------------------------------- subscription updates
\* subscriptions started once each, and the updates of their parameters and
\* of their termination time
NextParams ==
    \/ Tick
    \/ \E id \in SubscriptionIds :
          /\ \A n \in 1..Len(sub_admitted) : sub_admitted[n].subscription_id # id
          /\ add_subscription_job(id, 1, TickSecs, ts + 2 * TickSecs, ts, FALSE)
    \/ \E id \in SubscriptionIds : update_subscription_job_params(id, 17, 18)
    \/ \E id \in SubscriptionIds, new_lifetime \in {0, 3 * TickSecs} :
          update_subscription_job_termination_params(id, ts + new_lifetime)
    \/ update_subscription_job_write
    \/ \E i \in 1..Len(subscription_job_heap) : job_subscription_manager(i)
    \/ \E i \in 1..Len(sub_triggers) : trigger_subscription_job(i)

SpecParams == InitEpoch /\ [][NextParams]_vars

\* ------------------------------------------------------------ confirm_event
\* log.block_number.unwrap_or_default() + confirmation_blocks (line 411)
ConfirmationDepth(c) ==
    (IF c.log.block_number = NoneNumber THEN 0 ELSE c.log.block_number) + c.confirmation_blocks

\* the arms of the match on get_transaction_receipt, with every arm leaving
\* the marker of the log alone
get_transaction_receipt_unmarked(c, outcome) ==
    CASE outcome = "Some" -> [c EXCEPT !.pc = "returned"]
      [] outcome = "None" -> [c EXCEPT !.pc = "returned"]
      [] OTHER -> [c EXCEPT !.retries = c.retries + 1,
                            !.pc = IF c.retries + 1 >= c.MAX_TX_RECEIPT_RETRIES
                                   THEN "returned" ELSE "loop"]

\* the arms of the match on get_transaction_receipt (lines 413-437): a
\* receipt ends the loop, no receipt marks the log removed and ends the
\* loop, an error is counted and at the cap marks the log removed and ends
\* the loop; after the loop the log is returned (line 456)
get_transaction_receipt_match(c, outcome) ==
    CASE outcome = "Some" -> [c EXCEPT !.pc = "returned"]
      [] outcome = "None" -> [c EXCEPT !.log.removed = "true", !.pc = "returned"]
      [] OTHER -> IF c.retries + 1 >= c.MAX_TX_RECEIPT_RETRIES
                  THEN [c EXCEPT !.retries = c.retries + 1, !.log.removed = "true",
                                 !.pc = "returned"]
                  ELSE [c EXCEPT !.retries = c.retries + 1, !.pc = "loop"]

ConfirmEvent(kind, outcome) == Event(kind, NoJob, [NoRes EXCEPT !.kind = outcome])

\* the call and its first lines (392-408): a log without transaction hash,
\* or with the zero hash, is returned marked removed at once
confirm_event(log, confirmation_blocks, last_seen_block, cap) ==
    /\ confirm.pc = "idle"
    /\ IF log.transaction_hash \in {NoneNumber, ZeroHash}
       THEN /\ confirm' = ConfirmCall("returned", [log EXCEPT !.removed = "true"],
                                      confirmation_blocks, last_seen_block, cap)
            /\ ev' = ConfirmEvent("confirm_event", "no_hash")
       ELSE /\ confirm' = ConfirmCall("loop", log, confirmation_blocks, last_seen_block, cap)
            /\ ev' = ConfirmEvent("confirm_event", "called")
    /\ UNCHANGED <<coordinator_vars, reg_vars, sub_vars, finder, channels>>

\* the top of the loop (lines 409-444): at the depth the receipt is fetched,
\* below it the call goes on to ask for the head
confirm_event_loop ==
    /\ confirm.pc = "loop"
    /\ IF confirm.last_seen_block >= ConfirmationDepth(confirm)
       THEN \E outcome \in {"Some", "None", "Err"} :
                /\ confirm' = get_transaction_receipt_match(confirm, outcome)
                /\ ev' = ConfirmEvent("get_transaction_receipt", outcome)
       ELSE /\ confirm' = [confirm EXCEPT !.first_iteration = FALSE, !.pc = "poll"]
            /\ ev' = ConfirmEvent("confirm_event_waits", "")
    /\ UNCHANGED <<coordinator_vars, reg_vars, sub_vars, finder, channels>>

\* get_block_number and the store of its answer (lines 446-454); an error
\* goes back to the top of the loop
confirm_event_poll ==
    /\ confirm.pc = "poll"
    /\ \/ \E curr_block_number \in 0..MaxHead :
            /\ confirm' = [confirm EXCEPT !.last_seen_block = curr_block_number, !.pc = "loop"]
            /\ ev' = ConfirmEvent("get_block_number", "Ok")
       \/ /\ confirm' = [confirm EXCEPT !.pc = "loop"]
          /\ ev' = ConfirmEvent("get_block_number", "Err")
    /\ UNCHANGED <<coordinator_vars, reg_vars, sub_vars, finder, channels>>

\* another call sharing last_seen_block stores the head it was told (line
\* 454)
last_seen_block_store(curr_block_number) ==
    /\ confirm.pc \in {"loop", "poll"}
    /\ confirm.last_seen_block # curr_block_number
    /\ confirm' = [confirm EXCEPT !.last_seen_block = curr_block_number]
    /\ ev' = ConfirmEvent("last_seen_block_store", "")
    /\ UNCHANGED <<coordinator_vars, reg_vars, sub_vars, finder, channels>>

\* the logs confirm_event is called with
ConfirmLogs ==
    {ConfirmLog(b, h, r) : b \in {NoneNumber} \cup 0..MaxHead,
                           h \in {NoneNumber, ZeroHash, 1},
                           r \in {"false", "true", "none"}}

NextConfirm ==
    \/ \E log \in ConfirmLogs, confirmation_blocks \in 0..MaxConfirmations,
          last_seen_block \in 0..MaxHead, cap \in 1..MaxReceiptRetries :
            confirm_event(log, confirmation_blocks, last_seen_block, cap)
    \/ confirm_event_loop
    \/ confirm_event_poll
    \/ \E curr_block_number \in 0..MaxHead : last_seen_block_store(curr_block_number)

SpecConfirm == InitEpoch /\ [][NextConfirm]_vars

\* ------------------------------------------------ snapshots of equal stake
\* the snapshot add_gateway_epoch_state builds in the tests (lines
\* 1660-1717): n gateways of both chains, not draining, with one and the
\* same stake, which is 100 there and EqualStake units here
EqualSnapshot(n) == [a \in 1..n |-> GatewayData(a, EqualStake, {1, 2}, FALSE)]

\* start times of cycle 0 that seed the generator with each of its states
EqualSeeds == {CycleStart(0) + k : k \in 0..(RngModulus - 1)}

InitEqual ==
    /\ InitOther
    /\ ts = CycleStart(0)
    /\ gateway_epoch_state \in {[c \in {0} |-> EqualSnapshot(n)] : n \in 1..NumGateways}
    /\ gateway_epoch_state_waitlist = <<>>
    /\ active_jobs = <<>>
    /\ com_chain_tx = <<>>
    /\ placing = <<>>
    /\ timers = <<>>
    /\ com_chain_logs = <<>>
    /\ nlogs = 0
    /\ ev = NoEvent
    /\ last_elect = NoElect

\* the elector called as the placement calls it: seeded with the start time
\* of the job, with the sequence number for skips
NextEqual ==
    \E chain \in request_chain_ids, st \in EqualSeeds, seq \in 1..(MAX_GATEWAY_RETRIES + 1) :
        ElectCall(NewJob(1, chain, st, seq), st, seq)

SpecEqual == InitEqual /\ [][NextEqual]_vars

\* ------------------------------------------------------------ egress loops
\* the coordinator with every way the handling of one job can end: request-
\* chain logs are placed and relayed, JobResponded logs of the common chain
\* are answered
NextEgress ==
    \/ \E jc \in RelayedJobs, st \in StartTimes : JobRelayedLog(jc[1], jc[2], st, "false")
    \/ \E i \in 1..Len(placing) : job_placed_handler(i)
    \/ \E outcome \in EgressOutcomes : txns_to_common_chain(outcome)
    \/ \E j \in EventJobIds : ComChainLog("JobResponded", j, NoneAddr, 0)
    \/ \E i \in 1..Len(handlers) : get_job_from_job_responded_event(i)
    \/ \E i \in 1..Len(handlers) : job_responded_handler(i)
    \/ \E i \in 1..Len(handlers) : remove_job(i)
    \/ \E outcome \in EgressOutcomes : txns_to_request_chain(outcome)

SpecEgress == InitJobs /\ [][NextEgress]_vars

\* -------------------------------------------------------- closed channels
ChannelFrame ==
    UNCHANGED <<ts, gateway_epoch_state, gateway_epoch_state_waitlist, active_jobs,
                com_chain_tx, placing, timers, com_chain_logs, nlogs, last_elect,
                lifecycle_vars, stream, epoch_task, reg_vars, sub_vars, confirm, finder>>

\* the last sender of the Job channel is dropped: the ingress of the request
\* chains has ended (lines 258-259) and no spawned placement or slash timer
\* holds a clone (lines 415, 463)
com_chain_senders_dropped ==
    /\ channels.com_chain_senders
    /\ placing = <<>> /\ timers = <<>>
    /\ channels' = [channels EXCEPT !.com_chain_senders = FALSE]
    /\ ev' = Event("senders_dropped", NoJob, NoRes)
    /\ ChannelFrame

\* the last sender of the ResponseJob channel is dropped: the ingress of the
\* common chain has ended (line 267) and no spawned handler holds a clone
\* (line 842)
req_chain_senders_dropped ==
    /\ channels.req_chain_senders
    /\ handlers = <<>>
    /\ channels' = [channels EXCEPT !.req_chain_senders = FALSE]
    /\ ev' = Event("senders_dropped", NoJob, NoRes)
    /\ ChannelFrame

\* the last sender of the manager's control channel is dropped
\* (job_subscription_management.rs lines 67-68, 92-93)
job_sub_senders_dropped ==
    /\ channels.job_sub_senders
    /\ channels' = [channels EXCEPT !.job_sub_senders = FALSE]
    /\ ev' = Event("senders_dropped", NoJob, NoRes)
    /\ ChannelFrame

\* txns_to_common_chain on its channel closed and empty (lines 637, 650):
\* recv gives None and the loop is left
txns_to_common_chain_closed ==
    /\ channels.txns_to_common_chain = "running"
    /\ ~channels.com_chain_senders /\ com_chain_tx = <<>>
    /\ channels' = [channels EXCEPT !.txns_to_common_chain = "ended"]
    /\ ev' = Event("txns_to_common_chain_closed", NoJob, NoRes)
    /\ ChannelFrame

\* txns_to_request_chain on its channel closed and empty (lines 1043, 1068)
txns_to_request_chain_closed ==
    /\ channels.txns_to_request_chain = "running"
    /\ ~channels.req_chain_senders /\ req_chain_tx = <<>>
    /\ channels' = [channels EXCEPT !.txns_to_request_chain = "ended"]
    /\ ev' = Event("txns_to_request_chain_closed", NoJob, NoRes)
    /\ ChannelFrame

\* one turn of job_subscription_manager on its channel closed and its heap
\* empty (job_subscription_management.rs lines 142-151, 212-217): recv gives
\* None, which disables the first branch of the select, the second is
\* disabled by its precondition, the else branch logs and the loop turns
\* again
job_subscription_manager_closed ==
    /\ sub_manager = "running"
    /\ ~channels.job_sub_senders /\ subscription_job_heap = <<>>
    /\ ev' = Event("job_subscription_manager_closed", NoJob, NoRes)
    /\ UNCHANGED channels
    /\ ChannelFrame

\* the coordinator and the subscription manager with senders that may go
NextChannels ==
    \/ Tick
    \/ /\ channels.com_chain_senders
       /\ \E st \in StartTimes : JobRelayedLog(1, 2, st, "false")
    \/ \E i \in 1..Len(placing) : job_placed_handler(i)
    \/ \E outcome \in {"confirmed", "failed"} : txns_to_common_chain(outcome)
    \/ /\ channels.req_chain_senders
       /\ \E j \in EventJobIds : ComChainLog("JobResponded", j, NoneAddr, 0)
    \/ \E i \in 1..Len(handlers) : get_job_from_job_responded_event(i)
    \/ \E i \in 1..Len(handlers) : job_responded_handler(i)
    \/ \E i \in 1..Len(handlers) : remove_job(i)
    \/ \E outcome \in {"confirmed", "failed"} : txns_to_request_chain(outcome)
    \/ /\ channels.job_sub_senders
       /\ add_subscription_job(1, 1, TickSecs, ts + TickSecs, ts, FALSE)
    \/ \E i \in 1..Len(subscription_job_heap) : job_subscription_manager(i)
    \/ \E i \in 1..Len(sub_triggers) : trigger_subscription_job(i)
    \/ com_chain_senders_dropped
    \/ req_chain_senders_dropped
    \/ job_sub_senders_dropped
    \/ txns_to_common_chain_closed
    \/ txns_to_request_chain_closed
    \/ job_subscription_manager_closed

SpecChannels == InitJobs /\ [][NextChannels]_vars

\* -------------------------------------------- get_block_number_by_timestamp
\* (x as f64 * block_rate_per_second) as u64 (lines 136-137, 180-181): on
\* the differences and rates of the chains below the product of the two
\* doubles, truncated, is the integer quotient
TimesRate(f, x) == (x * f.rate_num) \div f.rate_den

\* the test of line 119 with the target itself let through
AtOrBelowTarget(block_timestamp, target_timestamp) == block_timestamp <= target_timestamp

\* block.timestamp < target_timestamp (line 119)
BelowTarget(block_timestamp, target_timestamp) == block_timestamp < target_timestamp

FinderEvent(kind, outcome) == Event(kind, NoJob, [NoRes EXCEPT !.kind = outcome])

FinderFrame == UNCHANGED <<coordinator_vars, reg_vars, sub_vars, confirm, channels>>

\* the call (lines 70-74)
get_block_number_by_timestamp(chain, target_timestamp, cap) ==
    /\ finder.pc = "idle"
    /\ finder' = FinderCall("head", chain, target_timestamp, cap)
    /\ ev' = FinderEvent("get_block_number_by_timestamp", "called")
    /\ FinderFrame

\* one attempt at reading the head (lines 75-94): an error is slept on, the
\* first answer ends the attempts; with block_number still 0 after them the
\* call returns None.  The head is the last block of the chain or the one
\* before it, the last block then being mined while the call runs; a chain
\* at its genesis block reports 0
finder_get_block_number ==
    /\ finder.pc = "head"
    /\ \/ /\ finder' = [finder EXCEPT !.attempts = finder.attempts + 1,
                                       !.pc = IF finder.attempts + 1 = HeadAttempts
                                              THEN "returned" ELSE "head"]
          /\ ev' = FinderEvent("get_block_number", "Err")
       \/ \E head \in {0, Len(finder.chain) - 1, Len(finder.chain)} :
            /\ finder' = [finder EXCEPT !.attempts = finder.attempts + 1,
                                         !.head = head, !.block_number = head,
                                         !.pc = IF head = 0 THEN "returned" ELSE "search"]
            /\ ev' = FinderEvent("get_block_number", "Ok")
    /\ FinderFrame

\* the else branch of the loop body and the decrement after it (lines
\* 165-191)
AtOrAfterTarget(f, block_timestamp) ==
    LET earliest == IF f.block_number < f.earliest_block_number_after_target_ts
                    THEN f.block_number ELSE f.earliest_block_number_after_target_ts
        first_ts == IF f.first_block_timestamp = 0
                    THEN block_timestamp ELSE f.first_block_timestamp
        first_no == IF f.first_block_timestamp = 0
                    THEN f.block_number ELSE f.first_block_number
        g == [f EXCEPT !.earliest_block_number_after_target_ts = earliest,
                       !.first_block_timestamp = first_ts,
                       !.first_block_number = first_no]
        h == IF first_ts > block_timestamp + 1
             THEN LET r == [g EXCEPT !.rate_num = first_no - f.block_number,
                                     !.rate_den = first_ts - block_timestamp]
                      block_go_back == TimesRate(r, block_timestamp - f.target_timestamp)
                  IN  IF block_go_back # 0
                      THEN IF f.block_number >= block_go_back
                           THEN [r EXCEPT !.block_number = f.block_number - block_go_back + 1]
                           ELSE [r EXCEPT !.block_number = 1]
                      ELSE r
             ELSE g
    IN  [h EXCEPT !.block_number = h.block_number - 1,
                  !.pc = IF h.block_number - 1 > 0 THEN "search" ELSE "returned"]

\* one turn of the loop 'less_than_block_number (lines 102-121, 165-193): a
\* block that cannot be fetched is asked for again; a block below the target
\* goes on to its successor, any other block moves the search down, and the
\* search that arrives at block 0 returns None
less_than_block_number ==
    /\ finder.pc = "search"
    /\ IF finder.block_number > Len(finder.chain)
       THEN /\ finder' = finder
            /\ ev' = FinderEvent("get_block", "None")
       ELSE LET block_timestamp == finder.chain[finder.block_number] IN
            IF BelowTarget(block_timestamp, finder.target_timestamp)
            THEN /\ finder' = [finder EXCEPT !.retry_on_error = 0, !.pc = "next"]
                 /\ ev' = FinderEvent("get_block", "below")
            ELSE /\ finder' = AtOrAfterTarget(finder, block_timestamp)
                 /\ ev' = FinderEvent("get_block", "not_below")
    /\ FinderFrame

\* the Ok(Some) arm of the successor's fetch (lines 128-144): a successor at
\* or after the target returns the block, an earlier one moves the search up
\* by the estimate, kept below the earliest block known to be too late
NextBlockFound(f, next_timestamp) ==
    IF next_timestamp >= f.target_timestamp
    THEN [f EXCEPT !.result = f.block_number, !.pc = "returned"]
    ELSE LET jumped == f.block_number + TimesRate(f, f.target_timestamp - next_timestamp)
         IN  IF jumped >= f.earliest_block_number_after_target_ts
             THEN [f EXCEPT !.block_number = f.earliest_block_number_after_target_ts - 1,
                            !.earliest_block_number_after_target_ts =
                                f.earliest_block_number_after_target_ts - 1,
                            !.pc = "search"]
             ELSE [f EXCEPT !.block_number = jumped, !.pc = "search"]

\* one turn of the loop 'next_block_check (lines 124-164): a successor that
\* does not exist yet is waited for, an error is counted and past the cap
\* returns None
next_block_check ==
    /\ finder.pc = "next"
    /\ \/ /\ finder.block_number + 1 <= Len(finder.chain)
          /\ finder' = NextBlockFound(finder, finder.chain[finder.block_number + 1])
          /\ ev' = FinderEvent("get_next_block", "Some")
       \/ /\ finder.block_number + 1 > Len(finder.chain)
          /\ finder' = finder
          /\ ev' = FinderEvent("get_next_block", "None")
       \/ /\ finder' = [finder EXCEPT !.retry_on_error = finder.retry_on_error + 1,
                                       !.pc = IF finder.retry_on_error + 1
                                                 <= finder.MAX_RETRY_ON_PROVIDER_ERROR
                                              THEN "next" ELSE "returned"]
          /\ ev' = FinderEvent("get_next_block", "Err")
    /\ FinderFrame

RECURSIVE Chains(_)
\* the chains of n blocks: timestamps that never decrease
Chains(n) ==
    IF n = 0 THEN {<<>>}
    ELSE {Append(c, t) : c \in Chains(n - 1), t \in 1..MaxTimestamp} \cap
         {c \in [1..n -> 1..MaxTimestamp] : \A i \in 1..(n - 1) : c[i] <= c[i + 1]}

NextFinder ==
    \/ /\ finder.pc = "idle"
       /\ \E n \in 1..MaxChain, target_timestamp \in 1..(MaxTimestamp + 1),
             cap \in 0..MaxProviderRetries :
             \E chain \in Chains(n) : get_block_number_by_timestamp(chain, target_timestamp, cap)
    \/ finder_get_block_number
    \/ less_than_block_number
    \/ next_block_check

SpecFinder == InitEpoch /\ [][NextFinder]_vars

\* ================================================================== claims
\* what the claims call eligible, cumulative stake and sample, worked out
\* from the snapshot itself
EligibleAddrs(snapshot, chain) ==
    {a \in DOMAIN snapshot : /\ chain \in snapshot[a].req_chain_ids
                             /\ snapshot[a].stake_amount > MIN_GATEWAY_STAKE
                             /\ ~snapshot[a].draining}

RECURSIVE SumStake(_, _)
SumStake(snapshot, S) ==
    IF S = {} THEN 0
    ELSE LET a == CHOOSE x \in S : TRUE
         IN  snapshot[a].stake_amount + SumStake(snapshot, S \ {a})

CumulativeStake(snapshot, chain, a) ==
    SumStake(snapshot, {b \in EligibleAddrs(snapshot, chain) : b <= a})

EvCycle == JobCycle(ev.job.starttime)
EvSnapshotExists == EvCycle \in DOMAIN gateway_epoch_state
EvTooOld == CurrentCycle(ts) >= GATEWAY_BLOCK_STATES_TO_MAINTAIN + EvCycle

C3_NoEligibleIsError ==
    (/\ ev.kind = "elect" /\ EvSnapshotExists /\ ~EvTooOld
     /\ EligibleAddrs(gateway_epoch_state[EvCycle], ev.chain) = {})
        => ev.res.kind = "Err"

\* the placement of ev'.job that the step has just made
Placing == ev'.kind = "place"
PlacedCycle == JobCycle(ev'.job.starttime)
PlacedTooOld == CurrentCycle(ts) >= GATEWAY_BLOCK_STATES_TO_MAINTAIN + PlacedCycle

\* C4: a placement of a job with current_cycle >= 5 + job_cycle ends in the
\* JobTooOld error, with or without a snapshot of the job's cycle, and leaves
\* Active Jobs, the Waitlist, the egress channel and the timers as they were.
C4_TooOldChangesNothing ==
    [][(Placing /\ PlacedTooOld)
          => /\ ev'.res = Err(TooOldMsg)
             /\ UNCHANGED <<active_jobs, gateway_epoch_state_waitlist,
                            com_chain_tx, timers>>]_vars

C4_Witness ==
    /\ ev.kind = "place" /\ EvTooOld /\ EvSnapshotExists
    /\ ev.res = Err(TooOldMsg)

\* C5: a placement of a job that is not too old and whose cycle has no
\* snapshot appends the job to the end of Waitlist[job_cycle], returns the
\* zero address and leaves Active Jobs, the egress channel and the timers as
\* they were.
C5_NoSnapshotWaitlists ==
    [][(Placing /\ ~PlacedTooOld /\ PlacedCycle \notin DOMAIN gateway_epoch_state)
          => /\ ev'.res = Ok(ZeroAddress)
             /\ DOMAIN gateway_epoch_state_waitlist'
                  = DOMAIN gateway_epoch_state_waitlist \cup {PlacedCycle}
             /\ gateway_epoch_state_waitlist'[PlacedCycle]
                  = Append(IF PlacedCycle \in DOMAIN gateway_epoch_state_waitlist
                           THEN gateway_epoch_state_waitlist[PlacedCycle] ELSE <<>>,
                           ev'.job)
             /\ \A c \in DOMAIN gateway_epoch_state_waitlist :
                   c # PlacedCycle => gateway_epoch_state_waitlist'[c]
                                        = gateway_epoch_state_waitlist[c]
             /\ UNCHANGED <<active_jobs, com_chain_tx, timers>>]_vars

C5_Witness ==
    /\ ev.kind = "place" /\ ev.res = Ok(ZeroAddress) /\ ~EvSnapshotExists
    /\ EvCycle \in DOMAIN gateway_epoch_state_waitlist
    /\ Len(gateway_epoch_state_waitlist[EvCycle]) = 2
    /\ gateway_epoch_state_waitlist[EvCycle][2] = ev.job
    /\ gateway_epoch_state_waitlist[EvCycle][1] # ev.job

\* C6: a placement that elects this enclave stores the job in Active Jobs
\* under its job_id with gateway_address = enclave_address, puts exactly one
\* JobRelay message for it on the egress channel and leaves the Waitlist as
\* it was.
C6_SelfElectedRelays ==
    [][(Placing /\ ev'.res = Ok(enclave_address))
          => LET stored == [ev'.job EXCEPT !.gateway_address = enclave_address]
             IN  /\ ev'.job.job_id \in DOMAIN active_jobs'
                 /\ active_jobs'[ev'.job.job_id] = stored
                 /\ stored.job_type = "JobRelay"
                 /\ com_chain_tx' = Append(com_chain_tx, stored)
                 /\ UNCHANGED gateway_epoch_state_waitlist]_vars

C6_Witness ==
    /\ ev.kind = "place" /\ ev.res = Ok(enclave_address)
    /\ ev.job.job_id \in DOMAIN active_jobs
    /\ active_jobs[ev.job.job_id].gateway_address = enclave_address
    /\ Len(com_chain_tx) > 0

\* C7: a placement that elects another gateway leaves Active Jobs, the
\* Waitlist and the egress channel as they were and arms exactly one slash
\* timer of REQUEST_RELAY_TIMEOUT = 900 s for the job; a timer acts only once
\* its 900 s have passed.
C7_OtherElectedArmsTimer ==
    [][/\ (Placing /\ ev'.res.kind = "Ok"
             /\ ev'.res.addr \notin {ZeroAddress, enclave_address})
          => /\ UNCHANGED <<active_jobs, gateway_epoch_state_waitlist, com_chain_tx>>
             /\ Len(timers') = Len(timers) + 1
             /\ SubSeq(timers', 1, Len(timers)) = timers
             /\ timers'[Len(timers')].job
                  = [ev'.job EXCEPT !.gateway_address = ev'.res.addr]
             /\ timers'[Len(timers')].job_timeout = 900
             /\ timers'[Len(timers')].wake = ts + 900
       /\ ev'.kind = "timer" => ts >= ev'.deadline]_vars

C7_Witness ==
    /\ ev.kind = "place" /\ ev.res.kind = "Ok"
    /\ ev.res.addr \notin {ZeroAddress, enclave_address}
    /\ Len(timers) = 1
    /\ timers[1].job.job_id = ev.job.job_id
    /\ timers[1].wake = ts + REQUEST_RELAY_TIMEOUT
    /\ com_chain_tx = <<>>

\* the slash timer of ev'.job that the step has just run
TimerRan == ev'.kind = "timer"

\* a JobRelayed log of the common chain with the job's id and owner and the
\* given gateway
RelayLogged(job, gateway) ==
    \E i \in 1..Len(com_chain_logs) :
        /\ com_chain_logs[i].topics = <<JobRelayedTopic, job.job_id>>
        /\ com_chain_logs[i].data[3] = AddressToken(job.job_owner)
        /\ com_chain_logs[i].data[4] = AddressToken(gateway)

\* a log that counts as the relay of the job: its id, its owner and a
\* gateway that is neither zero nor this enclave
QualifyingLogExists(job) ==
    \E g \in GatewayAddrs \ {enclave_address} : RelayLogged(job, g)

\* C8: when the timer of a watched job expires and the common chain holds the
\* JobRelayed log of the job (its id, its owner) relayed by the gateway elected
\* for it, the timer returns with the relay seen: no Slash job is put on the
\* egress channel and the job is not handed to election again.
C8_RelaySeenEndsWatch ==
    [][(/\ TimerRan
        /\ ev'.job.gateway_address \notin {ZeroAddress, enclave_address}
        /\ RelayLogged(ev'.job, ev'.job.gateway_address))
          => /\ ev'.res.kind = "Relayed"
             /\ UNCHANGED <<com_chain_tx, placing>>]_vars

\* C9: when the timer expires and no qualifying JobRelayed log exists, exactly
\* one Slash job is put on the egress channel; it is the watched job with the
\* kind changed: the sequence number of the arming and the address of the
\* gateway that did not relay.
C9_MissEmitsOneSlash ==
    [][(TimerRan /\ ~QualifyingLogExists(ev'.job))
          => com_chain_tx'
               = Append(com_chain_tx, [ev'.job EXCEPT !.job_type = "SlashGatewayJob"])]_vars

\* C10 as stated: the slash loop gives a job up at its third missed timer.
C10_DroppedAtThirdMiss ==
    (ev.kind = "timer" /\ ev.res.kind = "MaxRetries") => ev.misses = 3

\* C10, amended: the slash loop gives a job up at its second missed timer,
\* the one whose increment is the second and takes the sequence number to
\* MAX_GATEWAY_RETRIES + 1 = 3; the first miss hands the job to election
\* again, the second hands it nowhere, and no job misses a third timer.
C10_DroppedAtSecondMiss ==
    [][(TimerRan /\ ev'.res.kind \in {"Retry", "MaxRetries"})
          => /\ ev'.misses \in {1, 2}
             /\ ev'.job.sequence_number = ev'.misses
             /\ ev'.res.kind = "MaxRetries" <=> ev'.misses = 2
             /\ ev'.res.kind = "MaxRetries"
                  => /\ ev'.job.sequence_number + 1 = MAX_GATEWAY_RETRIES + 1
                     /\ placing' = placing
                     /\ Len(timers') = Len(timers) - 1
             /\ ev'.res.kind = "Retry"
                  => /\ Len(placing') = Len(placing) + 1
                     /\ placing'[Len(placing')].job.sequence_number = 2]_vars

C10_Witness ==
    /\ ev.kind = "timer" /\ ev.res.kind = "MaxRetries"
    /\ ev.misses = 2
    /\ Len(com_chain_tx) >= 2

\* C11: after a missed relay the job is handed to election again only when
\* its incremented sequence number is <= MAX_GATEWAY_RETRIES, unchanged but
\* for the sequence number and the forgotten gateway; every placement elects
\* with the job's start time as seed and its sequence number as skips, never
\* with skips above MAX_GATEWAY_RETRIES; and no ingested job has more than
\* MAX_GATEWAY_RETRIES Slash jobs emitted for it.
C11_RetriesBounded ==
    [][/\ (TimerRan /\ ev'.res.kind \in {"Retry", "MaxRetries"})
          => /\ ev'.res.kind = "Retry"
                  <=> ev'.job.sequence_number + 1 <= MAX_GATEWAY_RETRIES
             /\ ev'.misses <= MAX_GATEWAY_RETRIES
             /\ com_chain_tx' = Append(com_chain_tx,
                                       [ev'.job EXCEPT !.job_type = "SlashGatewayJob"])
             /\ ev'.res.kind = "Retry"
                  => placing' = Append(placing,
                        Task([ev'.job EXCEPT
                                 !.sequence_number = ev'.job.sequence_number + 1,
                                 !.gateway_address = NoneAddr],
                             ev'.misses))
             /\ ev'.res.kind = "MaxRetries" => placing' = placing
       /\ Placing
          => /\ ev'.seed = ev'.job.starttime
             /\ ev'.skips = ev'.job.sequence_number
             /\ ev'.skips = ev'.misses + 1
             /\ ev'.skips <= MAX_GATEWAY_RETRIES]_vars

C11_Witness ==
    /\ ev.kind = "place" /\ ev.res.kind = "Ok"
    /\ ev.skips = MAX_GATEWAY_RETRIES /\ ev.misses = 1
    /\ ev.seed = ev.job.starttime
    /\ \E i \in 1..Len(com_chain_tx) :
          /\ com_chain_tx[i].job_type = "SlashGatewayJob"
          /\ com_chain_tx[i].job_id = ev.job.job_id
          /\ com_chain_tx[i].sequence_number = 1

\* C12: for every job id the sequence number stored in active_jobs never
\* decreases from one step to the next.
C12_SequenceNeverDecreases ==
    [][\A j \in DOMAIN active_jobs \cap DOMAIN active_jobs' :
          active_jobs'[j].sequence_number >= active_jobs[j].sequence_number]_vars

\* the job ids whose entry the step has just taken out of active_jobs
Removed == DOMAIN active_jobs \ DOMAIN active_jobs'

C14_CancelRemovesOnlyItsId ==
    [][ev'.kind = "cancel"
          => /\ DOMAIN active_jobs' = DOMAIN active_jobs \ {ev'.job.job_id}
             /\ \A j \in DOMAIN active_jobs' : active_jobs'[j] = active_jobs[j]
             /\ ev'.job.job_id \notin DOMAIN active_jobs => active_jobs' = active_jobs]_vars

C14_Witness ==
    /\ ev.kind = "cancel"
    /\ ev.job.job_id \notin DOMAIN active_jobs
    /\ active_jobs # <<>>
    /\ \E i \in 1..Len(com_chain_tx) : com_chain_tx[i].job_id = ev.job.job_id

\* this enclave was elected for job j of the chain: its JobRelay message is
\* on the egress channel
ElectedHere(j, chain) ==
    \E i \in 1..Len(com_chain_tx) :
        /\ com_chain_tx[i].job_id = j
        /\ com_chain_tx[i].request_chain_id = chain
        /\ com_chain_tx[i].job_type = "JobRelay"
        /\ com_chain_tx[i].gateway_address = enclave_address

\* C15: when the stream of a request chain delivered JobRelayed(j) and then
\* JobCancelled(j), this enclave was elected for j and both logs have been
\* handled, j is not in active_jobs.
C15_CancelAfterRelayWins ==
    \A j \in JobIds, chain \in request_chain_ids :
        (/\ stream = <<StreamLog("JobRelayed", j, chain, "false"),
                       StreamLog("JobCancelled", j, chain, "false")>>
         /\ placing = <<>> /\ handlers = <<>>
         /\ ElectedHere(j, chain))
            => j \notin DOMAIN active_jobs

\* C16: the step of gateway_reassigned_handler that removes an entry removes
\* it only for an event whose old gateway is this enclave, and the entry it
\* removes carries the sequence number of the event.
C16_ReassignedRemovesItsEntry ==
    [][ev'.kind = "reassigned_remove"
          => \A j \in Removed :
                /\ j = ev'.job.job_id
                /\ ev'.job.gateway_address = enclave_address
                /\ active_jobs[j].sequence_number = ev'.job.sequence_number]_vars

\* the same JobRelayed log of job j was ingested twice and nothing else
\* arrived; both placements ran and elected this enclave
IngestedTwice(j, chain) ==
    /\ stream = <<StreamLog("JobRelayed", j, chain, "false"),
                  StreamLog("JobRelayed", j, chain, "false")>>
    /\ ncom = 0
    /\ placing = <<>> /\ timers = <<>>
    /\ Len(com_chain_tx) = 2
    /\ \A i \in 1..2 :
          /\ com_chain_tx[i].job_id = j
          /\ com_chain_tx[i].request_chain_id = chain
          /\ com_chain_tx[i].job_type = "JobRelay"
          /\ com_chain_tx[i].gateway_address = enclave_address

\* C17: after the same JobRelayed log was ingested twice with this enclave
\* elected both times, active_jobs holds one entry for its job, equal to the
\* entry stored (and sent) by the first placement.
C17_SecondIngestionChangesNothing ==
    \A j \in JobIds, chain \in request_chain_ids :
        IngestedTwice(j, chain)
            => /\ j \in DOMAIN active_jobs
               /\ active_jobs[j] = com_chain_tx[1]
               /\ DOMAIN active_jobs = {j}

C17_Witness ==
    \E j \in JobIds, chain \in request_chain_ids :
        /\ IngestedTwice(j, chain)
        /\ ev.kind = "place" /\ ev.job.job_id = j
        /\ j \in DOMAIN active_jobs

C19_RunAfterAllRegistered ==
    /\ run_started <= 1
    /\ registered <=> run_started = 1
    /\ registered => reg_seen = RegistrationChains

C19_Witness ==
    /\ registered
    /\ run_started = 1
    /\ ev.kind = "registration_received"
    /\ nreglogs > Cardinality(RegistrationChains)

\* the trigger timestamps t0 + k * I up to T of a subscription
InstanceTimes(a) ==
    {a.starttime + k * a.interval :
        k \in {n \in 0..((a.termination_time - a.starttime) \div a.interval) :
                  a.starttime + n * a.interval <= a.termination_time}}

\* the subscription was admitted once, alive, and nothing of it is pending
SubscriptionOver(n) ==
    LET a == sub_admitted[n]
    IN  /\ \A k \in 1..Len(sub_admitted) :
              sub_admitted[k].subscription_id = a.subscription_id => k = n
        /\ a.termination_time >= a.starttime
        /\ a.subscription_id \notin DOMAIN subscription_jobs
        /\ \A k \in 1..Len(subscription_job_heap) :
              subscription_job_heap[k].subscription_id # a.subscription_id
        /\ \A k \in 1..Len(sub_triggers) :
              sub_triggers[k].subscription_job.subscription_id # a.subscription_id

TriggeredOf(id) == {k \in 1..Len(triggered) : triggered[k].subscription_id = id}

\* C20: once a subscription admitted from a live log has run out, the trigger
\* timestamps of the instance jobs handed to the coordinator are exactly
\* t0 + k * I <= T, each handed on once.
C20_TriggersAreTheInstanceTimes ==
    \A n \in 1..Len(sub_admitted) :
        SubscriptionOver(n)
            => LET a == sub_admitted[n]
                   fired == TriggeredOf(a.subscription_id)
               IN  /\ {triggered[k].trigger_timestamp : k \in fired} = InstanceTimes(a)
                   /\ \A k, m \in fired :
                         triggered[k].trigger_timestamp = triggered[m].trigger_timestamp
                             => k = m

\* the instance jobs of subscription id handed to the coordinator, as
\* <<trigger timestamp, job_id, sequence_number>>
InstancesOf(id) ==
    {<<triggered[k].trigger_timestamp, triggered[k].job.job_id,
       triggered[k].job.sequence_number>> : k \in TriggeredOf(id)}

\* C21: in the scenario, once the subscription 42 is dropped and nothing of
\* it is pending, exactly three instances were handed to the coordinator: at
\* 1700000000, 1700000060 and 1700000120 with job ids 42, 43, 44 and
\* sequence number 1.
C21_ScenarioFiresThree ==
    \A n \in 1..Len(sub_admitted) :
        (sub_admitted[n] = ScenarioSubscription /\ SubscriptionOver(n))
            => /\ InstancesOf(42) = {<<1700000000, 42, 1>>, <<1700000060, 43, 1>>,
                                     <<1700000120, 44, 1>>}
               /\ Cardinality(TriggeredOf(42)) = 3

\* C22: the entries the heap pops next, when their subscription is known,
\* have next_trigger_time = starttime + k * interval for a k >= 0 and
\* next_trigger_time <= the termination time the subscription has now.
C22_HeapTopWithinTermination ==
    \A i \in HeapTop(subscription_job_heap) :
        LET e == subscription_job_heap[i]
        IN  e.subscription_id \in DOMAIN subscription_jobs
                => LET a == subscription_jobs[e.subscription_id]
                   IN  /\ e.next_trigger_time >= a.starttime
                       /\ (e.next_trigger_time - a.starttime) % a.interval = 0
                       /\ e.next_trigger_time <= a.termination_time

\* the positions of the logs about subscription id
AdmissionsOf(id) == {n \in 1..Len(sub_admitted) : sub_admitted[n].subscription_id = id}
UpdatesOf(id) ==
    {n \in 1..Len(sub_updates) :
        /\ sub_updates[n].subscription_id = id
        /\ sub_updates[n].kind = "termination"}

\* the termination time of subscription id on its chain: the one of its last
\* update, or the one it was started with
TerminationOnChain(id) ==
    IF UpdatesOf(id) # {}
    THEN sub_updates[CHOOSE n \in UpdatesOf(id) : \A m \in UpdatesOf(id) : m <= n]
             .termination_time
    ELSE sub_admitted[CHOOSE n \in AdmissionsOf(id) : TRUE].termination_time

\* C23: a subscription whose start log was handed to add_subscription_job
\* once is in subscription_jobs exactly as long as its termination time has
\* not passed; a subscription never admitted is not in subscription_jobs.
C23_KnownUntilTermination ==
    \A id \in SubscriptionIds :
        /\ AdmissionsOf(id) = {} => id \notin DOMAIN subscription_jobs
        /\ Cardinality(AdmissionsOf(id)) = 1
              => (id \in DOMAIN subscription_jobs <=> ts <= TerminationOnChain(id))

\* the popped entry is stale: its subscription is gone, or its trigger time
\* lies after the termination time the subscription has now
StaleEntry(e) ==
    \/ e.job_id \notin DOMAIN subscription_jobs
    \/ e.starttime > subscription_jobs[e.job_id].termination_time

\* C24: a turn of the manager that pops a stale entry spawns no instance and
\* leaves the manager running.
C24_StaleEntryIgnored ==
    [][(ev'.kind \in {"subscription_popped", "subscription_manager_returned"}
          /\ StaleEntry(ev'.job))
          => /\ sub_triggers' = sub_triggers
             /\ sub_manager' = "running"]_vars

\* C25: confirm_event fetches the receipt only while the head it last saw is
\* at least L.block + confirmation_blocks; it returns the log without a
\* removed marker only on a receipt found at that depth; a receipt absent at
\* that depth returns the log marked removed, and so does the failed fetch
\* that brings the failures to MAX_TX_RECEIPT_RETRIES, and no earlier one.
ConfirmReturns == confirm.pc # "returned" /\ confirm'.pc = "returned"

ReceiptFetch(outcome) ==
    /\ ev'.kind = "get_transaction_receipt"
    /\ ev'.res.kind = outcome

C25_ConfirmEvent ==
    [][/\ ev'.kind = "get_transaction_receipt"
          => confirm.last_seen_block >= ConfirmationDepth(confirm)
       /\ (ConfirmReturns /\ confirm'.log.removed # "true")
          => /\ ReceiptFetch("Some")
             /\ confirm.last_seen_block >= ConfirmationDepth(confirm)
             /\ confirm'.log = confirm.log
       /\ ReceiptFetch("None")
          => ConfirmReturns /\ confirm'.log.removed = "true"
       /\ ReceiptFetch("Err")
          => /\ confirm'.retries = confirm.retries + 1
             /\ IF confirm'.retries = confirm.MAX_TX_RECEIPT_RETRIES
                THEN ConfirmReturns /\ confirm'.log.removed = "true"
                ELSE /\ confirm'.retries < confirm.MAX_TX_RECEIPT_RETRIES
                     /\ confirm'.pc = "loop"
                     /\ confirm'.log = confirm.log]_vars

\* a log was returned marked removed after as many failed fetches as the cap
\* allows, the head having been asked for on the way
C25_Witness ==
    /\ confirm.pc = "returned"
    /\ confirm.log.removed = "true"
    /\ confirm.retries = confirm.MAX_TX_RECEIPT_RETRIES
    /\ confirm.retries > 1
    /\ ~confirm.first_iteration
    /\ ev.kind = "get_transaction_receipt"

\* C26: a block number returned by get_block_number_by_timestamp is the
\* largest block with a timestamp below the target, its successor being at
\* or after the target; the call returns None when five attempts at the
\* head have failed and when no block from 1 to the head is below the
\* target.
FinderReturned == finder.pc = "returned"

C26_BlockByTimestamp ==
    FinderReturned =>
        /\ finder.result # NoneNumber
           => /\ finder.result \in 1..(Len(finder.chain) - 1)
              /\ finder.chain[finder.result] < finder.target_timestamp
              /\ finder.target_timestamp <= finder.chain[finder.result + 1]
              /\ \A n \in 1..Len(finder.chain) :
                    finder.chain[n] < finder.target_timestamp => n <= finder.result
        /\ (finder.head = NoneNumber /\ finder.attempts = HeadAttempts)
           => finder.result = NoneNumber
        /\ (/\ finder.head # NoneNumber
            /\ \A n \in 1..finder.head : finder.chain[n] >= finder.target_timestamp)
           => finder.result = NoneNumber

\* a block was returned after the search had moved down by an estimate made
\* from two sampled blocks
C26_Witness ==
    /\ FinderReturned
    /\ finder.result # NoneNumber
    /\ finder.first_block_number > finder.result + 2
    /\ finder.rate_den > 1

\* C27: handling a job that fails, be it on the signature, on the decoding
\* of the signature or on the submission, leaves both egress loops running,
\* so that the jobs behind it in the channel are still taken.
EgressStep == ev'.kind \in {"relay_job_txn", "reassign_gateway_relay_txn", "remove_response_job"}

C27_FailureConfined ==
    [][(EgressStep /\ ev'.res.kind # "confirmed")
       => /\ channels'.txns_to_common_chain = "running"
          /\ channels'.txns_to_request_chain = "running"]_vars

\* C28: the turn a receiving loop takes on a channel that every sender has
\* left, and that is empty, ends the loop: the common-chain egress loop,
\* the request-chain egress loop, and the subscription manager once its
\* heap is empty as well.
C28_ClosedChannelEndsLoop ==
    [][/\ ev'.kind = "txns_to_common_chain_closed"
          => channels'.txns_to_common_chain = "ended"
       /\ ev'.kind = "txns_to_request_chain_closed"
          => channels'.txns_to_request_chain = "ended"
       /\ ev'.kind = "job_subscription_manager_closed"
          => sub_manager' # "running"]_vars

\* the draw of the claim: from 1..EqualStake * N, of the generator seeded
\* with the start time, after sequence_number - 1 discarded draws
EqualSample(job) ==
    DrawAfter(seed_from_u64(job.starttime), job.sequence_number - 1,
              EqualStake * Len(BTreeValues(gateway_epoch_state[0])))

\* the election chose the gateway at position p, counted from 0 in address
\* order
ElectedAtPosition(res, p) ==
    LET all == BTreeValues(gateway_epoch_state[0])
    IN  /\ p + 1 \in 1..Len(all)
        /\ res = Ok(all[p + 1].address)

C31_RespondedRemovesAndEnqueues ==
    [][/\ ev'.kind = "remove_job"
          => /\ ev'.job.job_id \notin DOMAIN active_jobs'
             /\ req_chain_tx' =
                   Append(req_chain_tx,
                          ResponseJob(ev'.job.job_id, ev'.job.request_chain_id,
                                      ev'.job.gateway_address))
       /\ ev'.kind \in {"responded_decode", "responded_read"}
          => /\ UNCHANGED <<active_jobs, req_chain_tx>>
             /\ ev'.job.job_id \notin DOMAIN active_jobs
                   => Len(handlers') < Len(handlers)]_vars

\* the first trigger time starttime + k * interval, k >= 1, of subscription
\* a that is at or after the time minimum
FirstViableTrigger(a, minimum) ==
    LET last == IF minimum > a.starttime
                THEN (minimum - a.starttime) \div a.interval + 1 ELSE 1
        k == CHOOSE n \in 1..last :
                 /\ a.starttime + n * a.interval >= minimum
                 /\ \A m \in 1..(n - 1) : a.starttime + m * a.interval < minimum
    IN  a.starttime + k * a.interval

\* C32: the admission of a subscription from a historic log hands the first
\* instance (the one at starttime) to a trigger task exactly when starttime is
\* not before minimum_timestamp_for_job; the entry it pushes on the heap, if
\* any, is the first trigger time starttime + k * interval, k >= 1, at or
\* after minimum_timestamp_for_job, and it is not after termination_time.
C32_HistoricReplay ==
    [][(ev'.kind = "subscription_added" /\ ev'.res.msg = "historic")
          => LET a == sub_admitted'[Len(sub_admitted')]
                 minimum == minimum_timestamp_for_job(ts)
                 pushed == subscription_job_heap'[Len(subscription_job_heap')]
             IN  /\ sub_triggers' =
                       IF a.starttime < minimum
                       THEN sub_triggers
                       ELSE Append(sub_triggers,
                                   [subscription_job |-> a,
                                    trigger_timestamp |-> a.starttime])
                 /\ Len(subscription_job_heap') > Len(subscription_job_heap)
                       => /\ pushed.subscription_id = a.subscription_id
                          /\ pushed.next_trigger_time = FirstViableTrigger(a, minimum)
                          /\ pushed.next_trigger_time <= a.termination_time]_vars

\* the update of the parameters of subscription id that was applied last
LastParams(id) ==
    {n \in 1..Len(sub_updates) :
        /\ sub_updates[n].subscription_id = id
        /\ sub_updates[n].kind = "params" /\ sub_updates[n].pc = "applied"
        /\ \A m \in (n + 1)..Len(sub_updates) :
              ~(/\ sub_updates[m].subscription_id = id
                /\ sub_updates[m].kind = "params" /\ sub_updates[m].pc = "applied")}

\* C33: an update that finds no entry for its subscription id returns
\* NoSubscriptionJobFound, and its lookup changes neither subscription_jobs
\* nor the heap; an update that is applied changes, in the entry of its id
\* alone, tx_hash and code_input (UpdateParams) or termination_time
\* (UpdateTermination) and nothing else, and leaves the heap as it was; the
\* instance spawned by a pop that follows an applied UpdateParams is built
\* from the new tx_hash and code_input, and the job handed to the coordinator
\* carries tx_hash and code_input of the instance that was spawned.
C33_UpdatesChangeTheirFields ==
    [][/\ ev'.kind \in {"subscription_update_failed", "subscription_update_checked"}
          => /\ UNCHANGED <<subscription_jobs, subscription_job_heap>>
             /\ ev'.kind = "subscription_update_failed"
                   <=> ev'.job.job_id \notin DOMAIN subscription_jobs
             /\ ev'.kind = "subscription_update_failed"
                   => ev'.res = Err("NoSubscriptionJobFound")
       /\ ev'.kind = "subscription_updated"
          => LET call == sub_updates[Len(sub_updates)]
                 id == call.subscription_id
             IN  /\ subscription_job_heap' = subscription_job_heap
                 /\ DOMAIN subscription_jobs' = DOMAIN subscription_jobs
                 /\ \A k \in DOMAIN subscription_jobs \ {id} :
                       subscription_jobs'[k] = subscription_jobs[k]
                 /\ subscription_jobs'[id] =
                       IF call.kind = "params"
                       THEN [subscription_jobs[id] EXCEPT !.tx_hash = call.tx_hash,
                                                          !.code_input = call.code_input]
                       ELSE [subscription_jobs[id] EXCEPT
                                !.termination_time = call.termination_time]
       /\ ev'.kind = "subscription_popped"
          => \A n \in LastParams(ev'.job.job_id) :
                LET spawned == sub_triggers'[Len(sub_triggers')].subscription_job
                IN  /\ Len(sub_triggers') = Len(sub_triggers) + 1
                    /\ spawned.tx_hash = sub_updates[n].tx_hash
                    /\ spawned.code_input = sub_updates[n].code_input
       /\ ev'.kind = "subscription_triggered"
          => \E i \in 1..Len(sub_triggers) :
                /\ sub_triggers' = RemoveAt(sub_triggers, i)
                /\ ev'.job.tx_hash = sub_triggers[i].subscription_job.tx_hash
                /\ ev'.job.code_input = sub_triggers[i].subscription_job.code_input]_vars

\* an instance of a subscription whose parameters were updated has been
\* handed to the coordinator with the new tx_hash and code_input, while the
\* other subscription still has the parameters of its log
C33_Witness ==
    /\ ev.kind = "subscription_triggered"
    /\ \E n \in 1..Len(sub_updates) :
          /\ sub_updates[n].kind = "params" /\ sub_updates[n].pc = "applied"
          /\ ev.job.tx_hash = sub_updates[n].tx_hash
          /\ ev.job.code_input = sub_updates[n].code_input
          /\ ev.job.tx_hash # SubscriptionJob(0, 0, 0, 0, 0).tx_hash
          /\ \E k \in DOMAIN subscription_jobs :
                /\ k # sub_updates[n].subscription_id
                /\ subscription_jobs[k].tx_hash = SubscriptionJob(0, 0, 0, 0, 0).tx_hash

\* ------------------------------------------------------ failed transactions
\* the egress loops together with the slash timers, so that relayJob,
\* reassignGatewayRelay and jobResponse transactions are all sent
NextFailures ==
    \/ NextEgress
    \/ Tick
    \/ \E i \in 1..Len(timers) : job_relayed_slash_timer(i)

SpecFailures == InitJobs /\ [][NextFailures]_vars

\* what a failure short of the signature looks like to the loops
LoggedFailures == {"failed", "decode_failed"}

\* C34: a relayJob, reassignGatewayRelay or jobResponse transaction that is
\* not submitted or not confirmed only leaves the channel it was taken from:
\* no channel gains a job, no placement and no slash timer is started, the
\* loop keeps running, and after a failed relayJob or reassignGatewayRelay
\* the Active Jobs are what they were
C34_FailureOnlyLogged ==
    [][ev'.res.kind \in LoggedFailures
       /\ ev'.kind \in {"relay_job_txn", "reassign_gateway_relay_txn", "remove_response_job"}
       => /\ timers' = timers
          /\ placing' = placing
          /\ handlers' = handlers
          /\ channels' = channels
          /\ IF ev'.kind = "remove_response_job"
             THEN /\ req_chain_tx' = Tail(req_chain_tx)
                  /\ com_chain_tx' = com_chain_tx
             ELSE /\ com_chain_tx' = Tail(com_chain_tx)
                  /\ req_chain_tx' = req_chain_tx
                  /\ active_jobs' = active_jobs]_vars

\* a relayJob transaction has failed and its job is in the Active Jobs
C34_Witness ==
    /\ ev.kind = "relay_job_txn"
    /\ ev.res.kind = "failed"
    /\ ev.job.job_id \in DOMAIN active_jobs
    /\ active_jobs[ev.job.job_id] = [ev.job EXCEPT !.job_type = active_jobs[ev.job.job_id].job_type]
    /\ \A n \in 1..Len(com_chain_tx) : com_chain_tx[n].job_id # ev.job.job_id

\* ------------------------------------------- job ids across request chains
\* the request chains on which a JobCancelled log of job id j was taken up
CancelledChains(j) ==
    {stream[n].chain : n \in {k \in 1..Len(stream) : /\ stream[k].topic = "JobCancelled"
                                                      /\ stream[k].job_id = j
                                                      /\ stream[k].removed = "false"}}

\* the step leaves the entry stored under j as it is
EntryKept(j) == j \in DOMAIN active_jobs' /\ active_jobs'[j] = active_jobs[j]

\* the step is the placement of job j of a request chain other than chain
PlacesOtherChain(j, chain) ==
    ev'.kind = "place" /\ ev'.job.job_id = j /\ ev'.chain # chain

\* the step is the cancellation of job j, cancelled on other chains only
CancelsOtherChain(j, chain) ==
    ev'.kind = "cancel" /\ ev'.job.job_id = j /\ chain \notin CancelledChains(j)

\* the step removes job j after the response to a job of another chain
RemovesOtherChain(j, chain) ==
    /\ ev'.kind = "remove_response_job" /\ ev'.job.job_id = j
    /\ Head(req_chain_tx).request_chain_id # chain

\* C35: a step that places, cancels or removes after its response job j of
\* one request chain leaves the Active Jobs entry stored under j for a job of
\* another request chain as it is
C35_ChainsDoNotInterfere ==
    [][\A j \in DOMAIN active_jobs :
          LET chain == active_jobs[j].request_chain_id
          IN  \/ PlacesOtherChain(j, chain)
              \/ CancelsOtherChain(j, chain)
              \/ RemovesOtherChain(j, chain)
              => EntryKept(j)]_vars

\* ------------------------------- the election and the insert of a snapshot
\* the task stands between the absence test (line 557) and the end of the
\* block (line 574): it holds the read guard on gateway_epoch_state taken at
\* line 556
HoldsReadGuard(task) == task.pc = "guard_held"

\* the write lock taken whatever read guards are out
WriteLockUnheeded == TRUE

\* the write lock on gateway_epoch_state can be taken: no read guard is out
WriteLockFree == \A i \in 1..Len(placing) : ~HoldsReadGuard(placing[i])

\* select_gateway_for_job_id up to the absence test (lines 548-557): the job
\* is not too old and its cycle has no snapshot
select_gateway_absent(i) ==
    LET job == placing[i].job
    IN  /\ placing[i].pc = "start"
        /\ ~IsTooOld(CurrentCycle(ts), JobCycle(job.starttime))
        /\ JobCycle(job.starttime) \notin DOMAIN gateway_epoch_state
        /\ placing' = [placing EXCEPT ![i].pc = "guard_held"]
        /\ ev' = Event("absent", job, NoRes)
        /\ UNCHANGED <<ts, gateway_epoch_state, gateway_epoch_state_waitlist, active_jobs,
                       com_chain_tx, timers, com_chain_logs, nlogs, last_elect>>
        /\ UNCHANGED <<other_vars, stream>>

\* the else branch (lines 563-572) and the caller's return on the zero
\* address (lines 433-436): the job is pushed onto the waitlist of its cycle
select_gateway_waitlist_push(i) ==
    LET job == placing[i].job
    IN  /\ HoldsReadGuard(placing[i])
        /\ gateway_epoch_state_waitlist' =
              WaitlistPush(gateway_epoch_state_waitlist, JobCycle(job.starttime), job)
        /\ placing' = RemoveAt(placing, i)
        /\ ev' = [Event("place", job, Ok(ZeroAddress)) EXCEPT
                    !.seed = job.starttime, !.skips = job.sequence_number,
                    !.chain = job.request_chain_id, !.misses = placing[i].misses]
        /\ UNCHANGED <<ts, gateway_epoch_state, active_jobs, com_chain_tx, timers,
                       com_chain_logs, nlogs, last_elect>>
        /\ UNCHANGED <<other_vars, stream>>

\* job_placed_handler for a job that is refused or finds its snapshot
job_placed_with_snapshot(i) ==
    /\ placing[i].pc = "start"
    /\ \/ IsTooOld(CurrentCycle(ts), JobCycle(placing[i].job.starttime))
       \/ JobCycle(placing[i].job.starttime) \in DOMAIN gateway_epoch_state
    /\ job_placed_handler(i)

\* the insert of the service behind the write lock
gateway_epoch_state_insert_locked(snapshot) ==
    WriteLockFree /\ gateway_epoch_state_insert(snapshot)

NextInsertRace ==
    \/ Tick
    \/ \E j \in JobIds, st \in EpochStartTimes :
          JobCycle(st) <= CurrentCycle(ts) /\ JobRelayedLog(j, 2, st, "false")
    \/ \E i \in 1..Len(placing) : select_gateway_absent(i)
    \/ \E i \in 1..Len(placing) : select_gateway_waitlist_push(i)
    \/ \E i \in 1..Len(placing) : job_placed_with_snapshot(i)
    \/ \E snapshot \in EpochSnapshots : gateway_epoch_state_insert_locked(snapshot)
    \/ gateway_epoch_state_drain

SpecInsertRace == InitEpoch /\ [][NextInsertRace]_vars

\* the service has inserted the snapshot of cycle c and drained its waitlist
DrainedCycle(c) ==
    c \in DOMAIN gateway_epoch_state /\ (epoch_task.pc = "sleep" \/ epoch_task.e # c)

\* C37: a job is pushed onto Waitlist[c] only while cycle c has no snapshot,
\* and once the service has inserted the snapshot of cycle c and drained
\* Waitlist[c] no job is waiting for cycle c: every job of the cycle was
\* either elected against the snapshot or in the waitlist when it was drained
C37_NoJobStranded ==
    [][/\ \A c \in DOMAIN gateway_epoch_state' :
             DrainedCycle(c)' => WaitingFor(gateway_epoch_state_waitlist', c) = <<>>
       /\ \A c \in DOMAIN gateway_epoch_state_waitlist' :
             WaitingFor(gateway_epoch_state_waitlist', c)
                # WaitingFor(gateway_epoch_state_waitlist, c)
             /\ ev'.kind = "place"
             => c \notin DOMAIN gateway_epoch_state']_vars

\* a job that was in the waitlist of its cycle when the service drained it has
\* been elected against the snapshot, and no job is left waiting
C37_Witness ==
    /\ epoch_task.pc = "sleep" /\ epoch_task.drained > 0
    /\ ev.kind = "place" /\ ev.res.kind = "Ok" /\ ev.res.addr # ZeroAddress
    /\ JobCycle(ev.job.starttime) = epoch_task.e
    /\ DrainedCycle(epoch_task.e)
    /\ gateway_epoch_state_waitlist = <<>>
    /\ placing = <<>>

\* ------------------------------------------------ a log delivered again
\* the common-chain stream delivers a JobResponded log once more (lines
\* 766-784): the loop keeps no record of the logs it has seen and spawns a
\* task for this one as for the first
JobRespondedAgain(job_id) ==
    /\ ncom >= 1 /\ ncom <= MaxComEvents
    /\ ncom' = ncom + 1
    /\ handlers' = Append(handlers, HandlerTask("JobResponded", job_id, NoneAddr, 0))
    /\ ev' = HandlerEvent("com_event", handlers'[Len(handlers')], NoRes)
    /\ UNCHANGED <<ts, gateway_epoch_state, gateway_epoch_state_waitlist, active_jobs,
                   com_chain_tx, placing, timers, com_chain_logs, nlogs, last_elect, service_vars,
                   req_chain_tx, stream>>

\* the jobs of request chain 2 are placed on this enclave and answered; the
\* JobResponded log of a job may come twice
NextRedelivery ==
    \/ \E j \in EventJobIds, st \in StartTimes : JobRelayedLog(j, 2, st, "false")
    \/ \E i \in 1..Len(placing) : job_placed_handler(i)
    \/ \E outcome \in {"confirmed", "failed"} : txns_to_common_chain(outcome)
    \/ \E j \in EventJobIds : ComChainLog("JobResponded", j, NoneAddr, 0)
    \/ \E j \in EventJobIds : JobRespondedAgain(j)
    \/ \E i \in 1..Len(handlers) : get_job_from_job_responded_event(i)
    \/ \E i \in 1..Len(handlers) : job_responded_handler(i)
    \/ \E i \in 1..Len(handlers) : remove_job(i)
    \/ \E outcome \in {"confirmed", "failed"} : txns_to_request_chain(outcome)

SpecRedelivery == InitJobs /\ [][NextRedelivery]_vars

\* C36: a response job is put on the request-chain channel only by the step
\* that takes the entry of its job out of the Active Jobs, so that one active
\* job yields at most one response job, whichever way the handler tasks
\* interleave and however often the JobResponded log is delivered
C36_OneResponsePerActiveJob ==
    [][Len(req_chain_tx') > Len(req_chain_tx)
       => LET response_job == req_chain_tx'[Len(req_chain_tx')]
          IN  /\ response_job.job_id \in DOMAIN active_jobs
              /\ response_job.job_id \notin DOMAIN active_jobs']_vars

\* ------------------------------------------------------- instance job ids
\* the instance number of a triggered instance: the quotient of line 399-400,
\* which the instance's start time gives back (lines 402-403)
InstanceOf(t) == t.job.job_id - t.subscription_id

\* C38: two instances of different subscriptions, or two different instances
\* of one subscription, that are triggered at the same moment never carry
\* the same job id
C38_InstanceIdsUnambiguous ==
    \A a, b \in 1..Len(triggered) :
        /\ triggered[a].trigger_timestamp = triggered[b].trigger_timestamp
        /\ <<triggered[a].subscription_id, InstanceOf(triggered[a])>>
              # <<triggered[b].subscription_id, InstanceOf(triggered[b])>>
        => triggered[a].job.job_id # triggered[b].job.job_id

\* ------------------------------------------------ the width of the stakes
\* stake amounts as the snapshots hold them, 256-bit amounts counted in units
\* of 2^60, so that 2^64 and MIN_GATEWAY_STAKE stand in the order they have
U64Span == 16
MIN_GATEWAY_STAKE_U256 == 96

\* amounts that fit 64 bits, amounts that do not, and amounts at and above
\* the threshold
WideStakes == {1, U64Span - 1, U64Span, MIN_GATEWAY_STAKE_U256,
               MIN_GATEWAY_STAKE_U256 + 1, MIN_GATEWAY_STAKE_U256 + 2}

\* U256::as_u64 (lines 589, 593): the amount if it fits 64 bits, a panic
\* otherwise
as_u64(amount) ==
    IF amount < U64Span
    THEN [kind |-> "Ok", value |-> amount]
    ELSE [kind |-> "Panic", value |-> 0]

\* total_stake += .. on u64 (line 593): beyond 64 bits the sum panics in a
\* build with overflow checks and wraps in one without
AddU64(a, b, overflow_checks) ==
    IF a + b < U64Span THEN [kind |-> "Ok", value |-> a + b]
    ELSE IF overflow_checks THEN [kind |-> "Panic", value |-> 0]
    ELSE [kind |-> "Ok", value |-> (a + b) % U64Span]

\* the loop of lines 585-596 on 64-bit words: the chain test comes first, the
\* stake is converted for the comparison and again for the sum
RECURSIVE StakeLoopU64(_, _, _, _, _)
StakeLoopU64(all, chain, i, acc, overflow_checks) ==
    IF i > Len(all) THEN acc
    ELSE IF chain \notin all[i].req_chain_ids
    THEN StakeLoopU64(all, chain, i + 1, acc, overflow_checks)
    ELSE LET stake == as_u64(all[i].stake_amount)
         IN  IF stake.kind = "Panic"
             THEN [acc EXCEPT !.res = Panic("Integer overflow when casting to u64")]
             ELSE IF stake.value > MIN_GATEWAY_STAKE_U256 /\ all[i].draining = FALSE
             THEN LET total == AddU64(acc.total_stake, stake.value, overflow_checks)
                  IN  IF total.kind = "Panic"
                      THEN [acc EXCEPT !.res = Panic("attempt to add with overflow")]
                      ELSE StakeLoopU64(all, chain, i + 1,
                                        [acc EXCEPT
                                           !.gateways = Append(acc.gateways, all[i]),
                                           !.stake_distribution =
                                               Append(acc.stake_distribution, total.value),
                                           !.total_stake = total.value],
                                        overflow_checks)
             ELSE StakeLoopU64(all, chain, i + 1, acc, overflow_checks)

StakeDistributionU64(all, chain, overflow_checks) ==
    StakeLoopU64(all, chain, 1,
                 [gateways |-> <<>>, stake_distribution |-> <<>>, total_stake |-> 0,
                  res |-> Ok(NoneAddr)],
                 overflow_checks)

\* what a snapshot of 256-bit stakes may hold for address a
WideGatewayChoices(a) ==
    {GatewayData(a, s, {1, 2}, FALSE) : s \in WideStakes}
    \cup {GatewayData(a, MIN_GATEWAY_STAKE_U256 + 1, {1}, FALSE),
          GatewayData(a, MIN_GATEWAY_STAKE_U256 + 1, {1, 2}, TRUE)}

WideSnapshots ==
    {m \in UNION {[S -> UNION {WideGatewayChoices(a) : a \in S}] : S \in SUBSET GatewayAddrs} :
        \A a \in DOMAIN m : m[a].address = a}

\* the elector's loop run once, on a snapshot of cycle 0 for a job of the chain
StakeDistributionCall(snapshot, chain, overflow_checks) ==
    LET sd == StakeDistributionU64(BTreeValues(snapshot), chain, overflow_checks)
    IN  /\ gateway_epoch_state = <<>>
        /\ gateway_epoch_state' = [c \in {0} |-> snapshot]
        /\ ev' = [stake_distribution |-> sd.stake_distribution,
                  overflow_checks |-> overflow_checks]
                 @@ [Event("stake_distribution", NoJob, sd.res) EXCEPT !.chain = chain]
        /\ UNCHANGED <<ts, gateway_epoch_state_waitlist, active_jobs, com_chain_tx, placing,
                       timers, com_chain_logs, nlogs, last_elect>>
        /\ UNCHANGED <<other_vars, stream>>

NextStakes ==
    \E snapshot \in WideSnapshots, chain \in request_chain_ids, overflow_checks \in BOOLEAN :
        StakeDistributionCall(snapshot, chain, overflow_checks)

SpecStakes == InitEpoch /\ [][NextStakes]_vars

\* the gateways of the snapshot that support the chain, are not draining and
\* hold more than MIN_GATEWAY_STAKE, in the order of the map
RECURSIVE EligibleWide(_, _, _)
EligibleWide(all, chain, i) ==
    IF i > Len(all) THEN <<>>
    ELSE IF /\ chain \in all[i].req_chain_ids
            /\ all[i].stake_amount > MIN_GATEWAY_STAKE_U256
            /\ all[i].draining = FALSE
    THEN <<all[i]>> \o EligibleWide(all, chain, i + 1)
    ELSE EligibleWide(all, chain, i + 1)

\* the sum of the stakes of the first n gateways, as a number
RECURSIVE StakeSum(_, _)
StakeSum(gateways, n) ==
    IF n = 0 THEN 0 ELSE StakeSum(gateways, n - 1) + gateways[n].stake_amount

\* C39: on a snapshot in which every gateway of the chain that is not
\* draining holds more than MIN_GATEWAY_STAKE, the loop ends without a panic
\* and its k-th running sum is the sum of the stakes of the first k eligible
\* gateways
C39_StakeArithmeticExact ==
    ev.kind = "stake_distribution"
    => LET all == BTreeValues(gateway_epoch_state[0])
           eligible == EligibleWide(all, ev.chain, 1)
       IN  /\ Len(eligible) > 0
           /\ \A i \in 1..Len(all) :
                 ev.chain \in all[i].req_chain_ids /\ all[i].draining = FALSE
                 => all[i].stake_amount > MIN_GATEWAY_STAKE_U256
           => /\ ev.res.kind # "Panic"
              /\ ev.stake_distribution =
                    [k \in 1..Len(eligible) |-> StakeSum(eligible, k)]

\* ------------------------------------------------ the end of the search
MaxSparseTimestamp == 8 \* block timestamps of the sparse chains are 1..MaxSparseTimestamp

\* the chains of MaxChain blocks whose timestamps never decrease and may lie
\* further apart than their block numbers
SparseChains ==
    {c \in [1..MaxChain -> 1..MaxSparseTimestamp] :
        \A i \in 1..(MaxChain - 1) : c[i] <= c[i + 1]}

NextSearch ==
    \/ /\ finder.pc = "idle"
       /\ \E chain \in SparseChains, target_timestamp \in 1..(MaxSparseTimestamp + 1) :
             get_block_number_by_timestamp(chain, target_timestamp, 0)
    \/ finder_get_block_number
    \/ less_than_block_number
    \/ next_block_check

\* the search under weak fairness of its steps: a call that can take a step
\* takes one
SpecSearch == InitEpoch /\ [][NextSearch]_vars /\ WF_vars(NextSearch)

\* the head the call has read is a block below the target
HeadBelowTarget ==
    /\ finder.pc \in {"search", "next", "returned"}
    /\ finder.head > 0
    /\ finder.chain[finder.head] < finder.target_timestamp

\* a call of the provider has failed
ProviderFailed == ev.res.kind = "Err"

\* C40: a call whose provider never fails and whose head is a block at or
\* after the target returns: every run reaches the return, a failure of the
\* provider or a head below the target
C40_SearchTerminates == <>(FinderReturned \/ ProviderFailed \/ HeadBelowTarget)

====
